---- MODULE Spec2Model ----
(***************************************************************************)
(* Frame-update encoding pipeline of the RFB server (rfb::EncodeManager).  *)
(*                                                                         *)
(*   Spec     the work scheduler: queueSubRect, flush, the EncodeThread    *)
(*            workers, stop/join, with the queue mutex and the two         *)
(*            condition variables.                                         *)
(*   SpecEnc  prepareEncoders as a function of the connection parameters.  *)
(*   SpecUpd  writeUpdate on the geometry of an update: computeNumRects,   *)
(*            writeCopyRects, writeSolidRects/findSolidRect, writeRects,   *)
(*            on a machine with a single encoder thread.                   *)
(***************************************************************************)
EXTENDS Integers, Sequences, FiniteSets, TLC

(***************************************************************************)
(* Bounds of the model.                                                    *)
(***************************************************************************)
\* detected CPU cores range over 0..MaxCPU
MaxCPU == 2
\* rectangles queued over one run of the scheduler
MaxRects == 2

(***************************************************************************)
(* Program constants.                                                      *)
(***************************************************************************)
SubRectMaxArea == 65536
SubRectMaxWidth == 2048
SolidSearchBlock == 16
SolidBlockMinArea == 2048
\* the cap on encoder threads
MaxThreads == 4
\* the LastRect sentinel written as the rectangle count
LastRectCount == 65535

EncoderClass == {"encoderRaw", "encoderRRE", "encoderHextile",
                 "encoderTight", "encoderTightJPEG", "encoderZRLE"}

EncoderType == {"encoderSolid", "encoderBitmap", "encoderBitmapRLE",
                "encoderIndexed", "encoderIndexedRLE", "encoderFullColour"}

Encodings == {"encodingRaw", "encodingCopyRect", "encodingRRE",
              "encodingHextile", "encodingTight", "encodingZRLE"}

\* Encoder::flags & EncoderOrdered: the classes that compress into a
\* long-lived zlib stream.
EncoderOrdered(klass) == klass \in {"encoderTight", "encoderZRLE"}

\* encoders[klass]->isSupported(cp); cp.supported is the set of classes the
\* peer's parameters allow, the Raw encoder being supported by every peer.
isSupported(klass, cp) == klass = "encoderRaw" \/ klass \in cp.supported

(***************************************************************************)
(* prepareEncoders: the role -> class mapping, computed in the order of    *)
(* the code: the preferred encoding, then the roles still unassigned, then *)
(* the grayscale override.                                                 *)
(***************************************************************************)
AllRaw == [t \in EncoderType |-> "encoderRaw"]

PreferredStep(a, cp) ==
  CASE cp.preferred = "encodingRRE" ->
         [a EXCEPT !["encoderBitmapRLE"] = "encoderRRE",
                   !["encoderIndexedRLE"] = "encoderRRE"]
    [] cp.preferred = "encodingHextile" ->
         [a EXCEPT !["encoderBitmapRLE"] = "encoderHextile",
                   !["encoderIndexedRLE"] = "encoderHextile",
                   !["encoderFullColour"] = "encoderHextile"]
    [] cp.preferred = "encodingTight" ->
         [a EXCEPT !["encoderFullColour"] =
                       IF isSupported("encoderTightJPEG", cp) /\ cp.bpp >= 16
                       THEN "encoderTightJPEG" ELSE "encoderTight",
                   !["encoderIndexed"] = "encoderTight",
                   !["encoderIndexedRLE"] = "encoderTight",
                   !["encoderBitmap"] = "encoderTight",
                   !["encoderBitmapRLE"] = "encoderTight"]
    [] cp.preferred = "encodingZRLE" ->
         [a EXCEPT !["encoderFullColour"] = "encoderZRLE",
                   !["encoderBitmapRLE"] = "encoderZRLE",
                   !["encoderIndexedRLE"] = "encoderZRLE",
                   !["encoderBitmap"] = "encoderZRLE",
                   !["encoderIndexed"] = "encoderZRLE"]
    [] OTHER -> a

\* (a slip: ZRLE taken for FullColour without asking isSupported)
FullColourStepUnchecked(a, cp) ==
  IF a["encoderFullColour"] # "encoderRaw" THEN a
  ELSE IF isSupported("encoderTightJPEG", cp) /\ cp.bpp >= 16
       THEN [a EXCEPT !["encoderFullColour"] = "encoderTightJPEG"]
  ELSE [a EXCEPT !["encoderFullColour"] = "encoderZRLE"]

FullColourStep(a, cp) ==
  IF a["encoderFullColour"] # "encoderRaw" THEN a
  ELSE IF isSupported("encoderTightJPEG", cp) /\ cp.bpp >= 16
       THEN [a EXCEPT !["encoderFullColour"] = "encoderTightJPEG"]
  ELSE IF isSupported("encoderZRLE", cp)
       THEN [a EXCEPT !["encoderFullColour"] = "encoderZRLE"]
  ELSE IF isSupported("encoderTight", cp)
       THEN [a EXCEPT !["encoderFullColour"] = "encoderTight"]
  ELSE IF isSupported("encoderHextile", cp)
       THEN [a EXCEPT !["encoderFullColour"] = "encoderHextile"]
  ELSE a

IndexedStep(a, cp) ==
  IF a["encoderIndexed"] # "encoderRaw" THEN a
  ELSE IF isSupported("encoderZRLE", cp)
       THEN [a EXCEPT !["encoderIndexed"] = "encoderZRLE"]
  ELSE IF isSupported("encoderTight", cp)
       THEN [a EXCEPT !["encoderIndexed"] = "encoderTight"]
  ELSE IF isSupported("encoderHextile", cp)
       THEN [a EXCEPT !["encoderIndexed"] = "encoderHextile"]
  ELSE a

DerivedStep(a) ==
  LET a1 == IF a["encoderIndexedRLE"] = "encoderRaw"
            THEN [a EXCEPT !["encoderIndexedRLE"] = a["encoderIndexed"]] ELSE a
      a2 == IF a1["encoderBitmap"] = "encoderRaw"
            THEN [a1 EXCEPT !["encoderBitmap"] = a1["encoderIndexed"]] ELSE a1
  IN  IF a2["encoderBitmapRLE"] = "encoderRaw"
      THEN [a2 EXCEPT !["encoderBitmapRLE"] = a2["encoderBitmap"]] ELSE a2

\* (a slip: RRE tried before Tight for Solid)
SolidStepRREFirst(a, cp) ==
  IF a["encoderSolid"] # "encoderRaw" THEN a
  ELSE IF isSupported("encoderRRE", cp)
       THEN [a EXCEPT !["encoderSolid"] = "encoderRRE"]
  ELSE IF isSupported("encoderTight", cp)
       THEN [a EXCEPT !["encoderSolid"] = "encoderTight"]
  ELSE IF isSupported("encoderZRLE", cp)
       THEN [a EXCEPT !["encoderSolid"] = "encoderZRLE"]
  ELSE IF isSupported("encoderHextile", cp)
       THEN [a EXCEPT !["encoderSolid"] = "encoderHextile"]
  ELSE a

SolidStep(a, cp) ==
  IF a["encoderSolid"] # "encoderRaw" THEN a
  ELSE IF isSupported("encoderTight", cp)
       THEN [a EXCEPT !["encoderSolid"] = "encoderTight"]
  ELSE IF isSupported("encoderRRE", cp)
       THEN [a EXCEPT !["encoderSolid"] = "encoderRRE"]
  ELSE IF isSupported("encoderZRLE", cp)
       THEN [a EXCEPT !["encoderSolid"] = "encoderZRLE"]
  ELSE IF isSupported("encoderHextile", cp)
       THEN [a EXCEPT !["encoderSolid"] = "encoderHextile"]
  ELSE a

\* (a slip: the override leaves the Solid role as it was)
GrayStepKeepsSolid(a, cp) ==
  IF cp.subsampling = "subsampleGray" /\ isSupported("encoderTightJPEG", cp)
  THEN [t \in EncoderType |->
          IF t = "encoderSolid" THEN a[t] ELSE "encoderTightJPEG"]
  ELSE a

GrayStep(a, cp) ==
  IF cp.subsampling = "subsampleGray" /\ isSupported("encoderTightJPEG", cp)
  THEN [t \in EncoderType |-> "encoderTightJPEG"]
  ELSE a

\* the roles as assigned before the grayscale override
AssignedBeforeGray(cp) ==
  SolidStep(DerivedStep(IndexedStep(FullColourStep(
      PreferredStep(AllRaw, cp), cp), cp)), cp)

prepareEncoders(cp) == GrayStep(AssignedBeforeGray(cp), cp)

(***************************************************************************)
(* State.                                                                  *)
(***************************************************************************)
VARIABLES
  threads,        \* std::list<EncodeThread*> threads
  cp,             \* conn->cp and conn->getPreferredEncoding()
  activeEncoders, \* role -> class, as left by prepareEncoders
  workQueue,      \* list of RectEntry
  rectCount,
  encoderQueue,   \* class -> list of PreparedEntry
  outputQueue,    \* list of OutputEntry
  queueMutex,     \* the thread holding the queue mutex, or "free"
  stopRequested,  \* per worker
  wpc,            \* per worker: position in worker()
  wentry,         \* per worker: the entry / prep it works on
  dpc,            \* driver: position in writeUpdate / writeRects / flush
  dphase,         \* driver: which flush of writeUpdate ("rects" | "cursor")
  doutput,        \* driver: the OutputEntry flush is writing
  nextId,         \* number of queueSubRect calls so far, plus one
  wire,           \* what was written to the connection, in order
  encLog,         \* class -> rectangles passed to encodeRect, in order
  outLog,         \* rectangles in the order they entered outputQueue
  prepLog,        \* class -> rectangles in the order they entered encoderQueue
  flushMark,      \* <<Len(wire), nextId>> when the previous flush returned
  ui,             \* writeUpdate's UpdateInfo: changed, copied, copy_delta
  pb,             \* writeUpdate's PixelBuffer
  renderedCursor, \* writeUpdate's RenderedCursor (or NULL)
  nRects,         \* the count written in the framebuffer-update header
  changed,        \* writeUpdate's working Region
  pending,        \* writeRects: sub-rectangles its loops have still to queue
  queued,         \* the rectangles given to queueSubRect, in call order
  prepared,       \* the PreparedEntry of the last prepareRect, with its inputs
  rd,             \* MsgReader: the message last read and what reading it did
  wr,             \* MsgWriter: its side, its output stream and its failure
  stats,          \* class -> role -> rects and pixels of the startRect calls
  copyStats       \* rects and pixels of the CopyRect records

vars == <<threads, cp, activeEncoders, workQueue, rectCount, encoderQueue,
          outputQueue, queueMutex, stopRequested, wpc, wentry, dpc, dphase,
          doutput, nextId, wire, encLog, outLog, prepLog, flushMark, ui, pb,
          renderedCursor, nRects, changed, pending, queued, prepared,
          rd, wr, stats, copyStats>>

(***************************************************************************)
(* The scheduler.                                                          *)
(***************************************************************************)
ThreadNames == <<"w1", "w2", "w3", "w4">>

\* the number of EncodeThreads the constructor creates
ThreadCount(cpuCount) ==
  IF cpuCount = 0 THEN 1
  ELSE IF cpuCount > MaxThreads THEN MaxThreads ELSE cpuCount

NoEntry == [id |-> 0, type |-> "none"]

\* std::list operations on the queues
push_front(list, e) == <<e>> \o list
\* (a slip: the entry replaces the list)
push_backOnly(list, e) == <<e>>
push_back(list, e) == Append(list, e)
back(list) == list[Len(list)]
front(list) == Head(list)
pop_front(list) == Tail(list)

\* What analyseRect finds in a rectangle: the palette size (0 when the
\* colours exceed maxColours and the palette is cleared) and the RLE guess.
SchedContents == {[palette |-> 1, useRLE |-> TRUE],
                  [palette |-> 0, useRLE |-> TRUE]}

\* the switch on palette->size() of prepareRect
prepareRectType(content) ==
  CASE content.palette = 0 -> "encoderFullColour"
    [] content.palette = 1 -> "encoderSolid"
    [] content.palette = 2 ->
         IF content.useRLE THEN "encoderBitmapRLE" ELSE "encoderBitmap"
    [] OTHER ->
         IF content.useRLE THEN "encoderIndexedRLE" ELSE "encoderIndexed"

\* Connection parameters the scheduler is run under: Solid -> Tight with
\* FullColour -> Tight-JPEG (not ordered), FullColour -> Tight (two roles of
\* one ordered class), FullColour -> ZRLE (two ordered classes).
SchedConns ==
  { [preferred |-> "encodingTight", bpp |-> 32, subsampling |-> "subsampleNone",
     supported |-> {"encoderTight", "encoderTightJPEG"}],
    [preferred |-> "encodingTight", bpp |-> 8, subsampling |-> "subsampleNone",
     supported |-> {"encoderTight", "encoderTightJPEG"}],
    [preferred |-> "encodingZRLE", bpp |-> 32, subsampling |-> "subsampleNone",
     supported |-> {"encoderTight", "encoderZRLE"}] }

Threads == DOMAIN wpc

\* consumerCond->signal(): one waiting worker, if any, is woken
SignalConsumer(pc) ==
  IF \A w \in DOMAIN pc : pc[w] # "waiting" THEN {pc}
  ELSE {[pc EXCEPT ![w] = "woken"] : w \in {x \in DOMAIN pc : pc[x] = "waiting"}}

\* (a slip: nobody is woken)
BroadcastNobody(pc) == pc

\* consumerCond->broadcast()
BroadcastConsumer(pc) ==
  [w \in DOMAIN pc |-> IF pc[w] = "waiting" THEN "woken" ELSE pc[w]]

\* (a slip: the signal is lost)
SignalProducerLost(pc) == pc

\* producerCond->signal()
SignalProducer(pc) == IF pc = "flushWait" THEN "flushWoken" ELSE pc

\* the arguments of writeUpdate before its first call
NoUpdate == [changed |-> <<>>, copied |-> <<>>, copy_delta |-> [x |-> 0, y |-> 0]]
NoPixels == [bg |-> 0, patches |-> <<>>]
NULL == [present |-> FALSE]

\* the state the constructor leaves, for `n` encoder threads
NoPrepared == [done |-> FALSE]

\* MsgReader and MsgWriter after their constructors
NewReader == [msg |-> [kind |-> "none"], hdr |-> 0, dispatched |-> <<>>, pos |-> 0,
              calls |-> <<>>, raised |-> "", freed |-> <<>>]
NewWriter(client) == [client |-> client, called |-> FALSE, args |-> <<>>,
                      os |-> <<>>, flushes |-> 0, raised |-> ""]

EncodeManagerConstructed(n) ==
  /\ threads = SubSeq(ThreadNames, 1, n)
  /\ wpc = [w \in {ThreadNames[i] : i \in 1..n} |-> "start"]
  /\ stopRequested = [w \in {ThreadNames[i] : i \in 1..n} |-> FALSE]
  /\ wentry = [w \in {ThreadNames[i] : i \in 1..n} |-> NoEntry]
  /\ activeEncoders = AllRaw
  /\ workQueue = <<>>
  /\ rectCount = 0
  /\ encoderQueue = [k \in EncoderClass |-> <<>>]
  /\ outputQueue = <<>>
  /\ queueMutex = "free"
  /\ dpc = "idle"
  /\ dphase = "rects"
  /\ doutput = NoEntry
  /\ nextId = 1
  /\ wire = <<>>
  /\ encLog = [k \in EncoderClass |-> <<>>]
  /\ outLog = <<>>
  /\ prepLog = [k \in EncoderClass |-> <<>>]
  /\ flushMark = <<0, 1>>
  /\ ui = NoUpdate
  /\ pb = NoPixels
  /\ renderedCursor = NULL
  /\ nRects = -1
  /\ changed = <<>>
  /\ pending = <<>>
  /\ queued = <<>>
  /\ prepared = NoPrepared
  /\ stats = [k \in EncoderClass |->
                [t \in EncoderType |-> [rects |-> 0, pixels |-> 0]]]
  /\ copyStats = [rects |-> 0, pixels |-> 0]

\* the manager with the codec of its connection, the server's side
Constructed(n) ==
  /\ EncodeManagerConstructed(n)
  /\ rd = NewReader
  /\ wr = NewWriter(FALSE)

Init ==
  /\ \E cpuCount \in 0..MaxCPU : Constructed(ThreadCount(cpuCount))
  /\ cp \in SchedConns

\* ---- driver ----

\* writeUpdate: prepareEncoders(), up to the entry of writeRects
WriteUpdate ==
  /\ dpc = "idle"
  /\ activeEncoders' = prepareEncoders(cp)
  /\ dpc' = "writeRects"
  /\ dphase' = "rects"
  /\ UNCHANGED <<threads, cp, workQueue, rectCount, encoderQueue,
                 outputQueue, queueMutex, stopRequested, wpc, wentry,
                 doutput, nextId, wire, encLog, outLog, prepLog, flushMark,
                 ui, pb, renderedCursor, nRects, changed, pending, queued,
                 prepared, rd, wr, stats, copyStats>>

\* queueSubRect: lock; push_back; rectCount++; signal; unlock
QueueEffect(content) ==
  /\ queueMutex = "free"
  /\ workQueue' = push_back(workQueue, [id |-> nextId, content |-> content])
  /\ rectCount' = rectCount + 1
  /\ nextId' = nextId + 1
  /\ wpc' \in SignalConsumer(wpc)

\* the rectangle of every entry of the scheduler's runs: one 64x64 tile
SchedRect == [tl |-> [x |-> 0, y |-> 0], br |-> [x |-> 64, y |-> 64]]

\* one iteration of the loops of writeRects
queueSubRect ==
  /\ dpc = "writeRects"
  /\ nextId <= MaxRects
  /\ \E content \in SchedContents : QueueEffect(content)
  /\ queued' = Append(queued, [rect |-> SchedRect, from |-> "writeRects"])
  /\ UNCHANGED <<threads, cp, activeEncoders, encoderQueue, outputQueue,
                 queueMutex, stopRequested, wentry, dpc, dphase, doutput,
                 wire, encLog, outLog, prepLog, flushMark, ui, pb,
                 renderedCursor, nRects, changed, pending, prepared, rd, wr,
                 stats, copyStats>>

\* (a slip: writeRects returns without its flush)
WriteRectsNoFlush ==
  /\ dpc = "writeRects"
  /\ pending = <<>>
  /\ dphase' = "rects"
  /\ dpc' = "cursor"
  /\ UNCHANGED <<threads, cp, activeEncoders, workQueue, rectCount,
                 encoderQueue, outputQueue, queueMutex, stopRequested, wpc,
                 wentry, doutput, nextId, wire, encLog, outLog, prepLog,
                 flushMark, ui, pb, renderedCursor, nRects, changed,
                 pending, queued, prepared, rd, wr, stats, copyStats>>

\* the end of the loops of writeRects: flush() is called
WriteRectsFlush ==
  /\ dpc = "writeRects"
  /\ pending = <<>>
  /\ dpc' = "flushLock"
  /\ UNCHANGED <<threads, cp, activeEncoders, workQueue, rectCount,
                 encoderQueue, outputQueue, queueMutex, stopRequested, wpc,
                 wentry, dphase, doutput, nextId, wire, encLog, outLog,
                 prepLog, flushMark, ui, pb, renderedCursor, nRects,
                 changed, pending, queued, prepared, rd, wr, stats,
                 copyStats>>

\* flush: queueMutex->lock() (on entry, and after each rectangle written)
FlushLock ==
  /\ dpc = "flushLock"
  /\ queueMutex = "free"
  /\ queueMutex' = "driver"
  /\ dpc' = "flushLoop"
  /\ UNCHANGED <<threads, cp, activeEncoders, workQueue, rectCount,
                 encoderQueue, outputQueue, stopRequested, wpc, wentry,
                 dphase, doutput, nextId, wire, encLog, outLog, prepLog,
                 flushMark, ui, pb, renderedCursor, nRects, changed,
                 pending, queued, prepared, rd, wr, stats, copyStats>>

\* the condition of the while loop of flush
FlushPendingButOne(count) == count > 1
FlushPendingOrNone(count) == count >= 0
FlushPending(count) == count > 0

\* flush: the head of the while loop, holding the mutex: wait for an output,
\* or take the front one and unlock, or unlock and return
FlushLoop ==
  /\ dpc = "flushLoop"
  /\ queueMutex' = "free"
  /\ IF FlushPending(rectCount)
     THEN IF outputQueue = <<>>
          THEN /\ dpc' = "flushWait"
               /\ UNCHANGED <<outputQueue, doutput>>
          ELSE /\ doutput' = front(outputQueue)
               /\ outputQueue' = pop_front(outputQueue)
               /\ dpc' = "flushWrite"
     ELSE /\ dpc' = "flushRet"
          /\ UNCHANGED <<outputQueue, doutput>>
  /\ UNCHANGED <<threads, cp, activeEncoders, workQueue, rectCount,
                 encoderQueue, stopRequested, wpc, wentry, dphase, nextId,
                 wire, encLog, outLog, prepLog, flushMark, ui, pb,
                 renderedCursor, nRects, changed, pending, queued, prepared,
                 rd, wr, stats, copyStats>>

\* flush: producerCond->wait() returns once the mutex is free again
FlushWake ==
  /\ dpc = "flushWoken"
  /\ queueMutex = "free"
  /\ queueMutex' = "driver"
  /\ dpc' = "flushLoop"
  /\ UNCHANGED <<threads, cp, activeEncoders, workQueue, rectCount,
                 encoderQueue, outputQueue, stopRequested, wpc, wentry,
                 dphase, doutput, nextId, wire, encLog, outLog, prepLog,
                 flushMark, ui, pb, renderedCursor, nRects, changed,
                 pending, queued, prepared, rd, wr, stats, copyStats>>

\* (a slip: the rectangle is counted, its pixels are not)
startRectCountOnly(st, active, type, rect) ==
  [st EXCEPT ![active[type]][type].rects = @ + 1]

\* startRect: klass = activeEncoders[activeType]; stats[klass][activeType]
\* gets one more rectangle and rect.area() more pixels
startRect(st, active, type, rect) ==
  [st EXCEPT ![active[type]][type] =
     [rects |-> @.rects + 1,
      pixels |-> @.pixels + (rect.br.x - rect.tl.x) * (rect.br.y - rect.tl.y)]]

\* flush: startRect; writeBytes; endRect; delete output; rectCount--
FlushWrite ==
  /\ dpc = "flushWrite"
  /\ stats' = startRect(stats, activeEncoders, doutput.type,
                        queued[doutput.id].rect)
  /\ wire' = Append(wire, doutput)
  /\ rectCount' = rectCount - 1
  /\ doutput' = NoEntry
  /\ dpc' = "flushLock"
  /\ UNCHANGED <<threads, cp, activeEncoders, workQueue, encoderQueue,
                 outputQueue, queueMutex, stopRequested, wpc, wentry,
                 dphase, nextId, encLog, outLog, prepLog, flushMark, ui, pb,
                 renderedCursor, nRects, changed, pending, queued, prepared,
                 rd, wr, copyStats>>

\* flush has returned: to the cursor part of writeUpdate after writeRects,
\* to the end of writeUpdate after the cursor's flush
FlushReturn ==
  /\ dpc = "flushRet"
  /\ flushMark' = <<Len(wire), nextId>>
  /\ dpc' = IF dphase = "rects" THEN "cursor" ELSE "end"
  /\ UNCHANGED <<threads, cp, activeEncoders, workQueue, rectCount,
                 encoderQueue, outputQueue, queueMutex, stopRequested, wpc,
                 wentry, dphase, doutput, nextId, wire, encLog, outLog,
                 prepLog, ui, pb, renderedCursor, nRects, changed, pending,
                 queued, prepared, rd, wr, stats, copyStats>>

\* writeUpdate: renderedCursor != NULL: queueSubRect(renderedCursorRect); flush()
CursorRect ==
  /\ dpc = "cursor"
  /\ nextId <= MaxRects
  /\ \E content \in SchedContents : QueueEffect(content)
  /\ queued' = Append(queued, [rect |-> SchedRect, from |-> "cursor"])
  /\ dphase' = "cursor"
  /\ dpc' = "flushLock"
  /\ UNCHANGED <<threads, cp, activeEncoders, encoderQueue, outputQueue,
                 queueMutex, stopRequested, wentry, doutput, wire, encLog,
                 outLog, prepLog, flushMark, ui, pb, renderedCursor, nRects,
                 changed, pending, prepared, rd, wr, stats, copyStats>>

\* writeUpdate: renderedCursor == NULL
NoCursor ==
  /\ dpc = "cursor"
  /\ dpc' = "end"
  /\ UNCHANGED <<threads, cp, activeEncoders, workQueue, rectCount,
                 encoderQueue, outputQueue, queueMutex, stopRequested, wpc,
                 wentry, dphase, doutput, nextId, wire, encLog, outLog,
                 prepLog, flushMark, ui, pb, renderedCursor, nRects,
                 changed, pending, queued, prepared, rd, wr, stats,
                 copyStats>>

\* writeUpdate: writeFramebufferUpdateEnd(), and the return
UpdateEnd ==
  /\ dpc = "end"
  /\ dpc' = "idle"
  /\ UNCHANGED <<threads, cp, activeEncoders, workQueue, rectCount,
                 encoderQueue, outputQueue, queueMutex, stopRequested, wpc,
                 wentry, dphase, doutput, nextId, wire, encLog, outLog,
                 prepLog, flushMark, ui, pb, renderedCursor, nRects,
                 changed, pending, queued, prepared, rd, wr, stats,
                 copyStats>>

\* ~EncodeManager: the loop deleting threads.back()
Destroy ==
  /\ dpc = "idle"
  /\ dpc' = IF threads = <<>> THEN "destroyed" ELSE "stop"
  /\ UNCHANGED <<threads, cp, activeEncoders, workQueue, rectCount,
                 encoderQueue, outputQueue, queueMutex, stopRequested, wpc,
                 wentry, dphase, doutput, nextId, wire, encLog, outLog,
                 prepLog, flushMark, ui, pb, renderedCursor, nRects,
                 changed, pending, queued, prepared, rd, wr, stats,
                 copyStats>>

\* EncodeThread::stop() of threads.back(), under AutoMutex
Stop ==
  /\ dpc = "stop"
  /\ queueMutex = "free"
  /\ LET w == threads[Len(threads)] IN
       IF wpc[w] = "done"
       THEN UNCHANGED <<stopRequested, wpc>>
       ELSE /\ stopRequested' = [stopRequested EXCEPT ![w] = TRUE]
            /\ wpc' = BroadcastConsumer(wpc)
  /\ dpc' = "join"
  /\ UNCHANGED <<threads, cp, activeEncoders, workQueue, rectCount,
                 encoderQueue, outputQueue, queueMutex, wentry, dphase,
                 doutput, nextId, wire, encLog, outLog, prepLog, flushMark,
                 ui, pb, renderedCursor, nRects, changed, pending, queued,
                 prepared, rd, wr, stats, copyStats>>

\* EncodeThread::~EncodeThread: wait(), then threads.pop_back()
Join ==
  /\ dpc = "join"
  /\ wpc[threads[Len(threads)]] = "done"
  /\ threads' = SubSeq(threads, 1, Len(threads) - 1)
  /\ dpc' = IF Len(threads) = 1 THEN "destroyed" ELSE "stop"
  /\ UNCHANGED <<cp, activeEncoders, workQueue, rectCount, encoderQueue,
                 outputQueue, queueMutex, stopRequested, wpc, wentry,
                 dphase, doutput, nextId, wire, encLog, outLog, prepLog,
                 flushMark, ui, pb, renderedCursor, nRects, changed,
                 pending, queued, prepared, rd, wr, stats, copyStats>>

\* ---- EncodeThread::worker ----

\* queueMutex->lock() on entry of worker()
WorkerStart(w) ==
  /\ wpc[w] = "start"
  /\ queueMutex = "free"
  /\ queueMutex' = w
  /\ wpc' = [wpc EXCEPT ![w] = "loop"]
  /\ UNCHANGED <<threads, cp, activeEncoders, workQueue, rectCount,
                 encoderQueue, outputQueue, stopRequested, wentry, dpc,
                 dphase, doutput, nextId, wire, encLog, outLog, prepLog,
                 flushMark, ui, pb, renderedCursor, nRects, changed,
                 pending, queued, prepared, rd, wr, stats, copyStats>>

\* (a slip: the entry is popped and the mutex is kept)
WorkerLoopKeepsMutex(w) ==
  /\ wpc[w] = "loop"
  /\ IF stopRequested[w]
     THEN /\ wpc' = [wpc EXCEPT ![w] = "done"]
          /\ queueMutex' = "free"
          /\ UNCHANGED <<workQueue, wentry>>
     ELSE IF workQueue = <<>>
     THEN /\ wpc' = [wpc EXCEPT ![w] = "waiting"]
          /\ queueMutex' = "free"
          /\ UNCHANGED <<workQueue, wentry>>
     ELSE /\ wentry' = [wentry EXCEPT ![w] = front(workQueue)]
          /\ workQueue' = pop_front(workQueue)
          /\ wpc' = [wpc EXCEPT ![w] = "prepare"]
          /\ queueMutex' = queueMutex
  /\ UNCHANGED <<threads, cp, activeEncoders, rectCount, encoderQueue,
                 outputQueue, stopRequested, dpc, dphase, doutput, nextId,
                 wire, encLog, outLog, prepLog, flushMark, ui, pb,
                 renderedCursor, nRects, changed, pending, queued, prepared,
                 rd, wr, stats, copyStats>>

\* the head of while (!stopRequested), holding the mutex: leave the loop and
\* unlock, or wait for an entry, or pop one and unlock
WorkerLoop(w) ==
  /\ wpc[w] = "loop"
  /\ queueMutex' = "free"
  /\ IF stopRequested[w]
     THEN /\ wpc' = [wpc EXCEPT ![w] = "done"]
          /\ UNCHANGED <<workQueue, wentry>>
     ELSE IF workQueue = <<>>
     THEN /\ wpc' = [wpc EXCEPT ![w] = "waiting"]
          /\ UNCHANGED <<workQueue, wentry>>
     ELSE /\ wentry' = [wentry EXCEPT ![w] = front(workQueue)]
          /\ workQueue' = pop_front(workQueue)
          /\ wpc' = [wpc EXCEPT ![w] = "prepare"]
  /\ UNCHANGED <<threads, cp, activeEncoders, rectCount, encoderQueue,
                 outputQueue, stopRequested, dpc, dphase, doutput, nextId,
                 wire, encLog, outLog, prepLog, flushMark, ui, pb,
                 renderedCursor, nRects, changed, pending, queued, prepared,
                 rd, wr, stats, copyStats>>

\* consumerCond->wait() returns once the mutex is free again
WorkerWake(w) ==
  /\ wpc[w] = "woken"
  /\ queueMutex = "free"
  /\ queueMutex' = w
  /\ wpc' = [wpc EXCEPT ![w] = "loop"]
  /\ UNCHANGED <<threads, cp, activeEncoders, workQueue, rectCount,
                 encoderQueue, outputQueue, stopRequested, wentry, dpc,
                 dphase, doutput, nextId, wire, encLog, outLog, prepLog,
                 flushMark, ui, pb, renderedCursor, nRects, changed,
                 pending, queued, prepared, rd, wr, stats, copyStats>>

\* prepareRect, then the test of encoder->flags & EncoderOrdered
WorkerPrepare(w) ==
  /\ wpc[w] = "prepare"
  /\ LET type == prepareRectType(wentry[w].content) IN
       /\ wentry' = [wentry EXCEPT ![w] = [id |-> wentry[w].id, type |-> type]]
       /\ wpc' = [wpc EXCEPT ![w] =
                    IF EncoderOrdered(activeEncoders[type])
                    THEN "lockOrdered" ELSE "encode"]
  /\ UNCHANGED <<threads, cp, activeEncoders, workQueue, rectCount,
                 encoderQueue, outputQueue, queueMutex, stopRequested, dpc,
                 dphase, doutput, nextId, wire, encLog, outLog, prepLog,
                 flushMark, ui, pb, renderedCursor, nRects, changed,
                 pending, queued, prepared, rd, wr, stats, copyStats>>

\* the plain encoder: encodeRect, without the mutex
WorkerEncode(w) ==
  /\ wpc[w] = "encode"
  /\ encLog' = [encLog EXCEPT ![activeEncoders[wentry[w].type]] =
                                 Append(@, wentry[w].id)]
  /\ wpc' = [wpc EXCEPT ![w] = "lockOutput"]
  /\ UNCHANGED <<threads, cp, activeEncoders, workQueue, rectCount,
                 encoderQueue, outputQueue, queueMutex, stopRequested,
                 wentry, dpc, dphase, doutput, nextId, wire, outLog,
                 prepLog, flushMark, ui, pb, renderedCursor, nRects,
                 changed, pending, queued, prepared, rd, wr, stats,
                 copyStats>>

\* (a slip: the output is pushed before the mutex is taken)
WorkerOutputUnlocked(w) ==
  /\ wpc[w] = "lockOutput"
  /\ outputQueue' = push_back(outputQueue, wentry[w])
  /\ outLog' = Append(outLog, wentry[w].id)
  /\ dpc' = SignalProducer(dpc)
  /\ wentry' = [wentry EXCEPT ![w] = NoEntry]
  /\ wpc' = [wpc EXCEPT ![w] = "woken"]
  /\ UNCHANGED <<threads, cp, activeEncoders, workQueue, rectCount,
                 encoderQueue, queueMutex, stopRequested, dphase, doutput,
                 nextId, wire, encLog, prepLog, flushMark, ui, pb,
                 renderedCursor, nRects, changed, pending, queued, prepared,
                 rd, wr, stats, copyStats>>

\* the plain encoder: lock; outputQueue.push_back; producerCond->signal();
\* the mutex stays held up to the head of the loop
WorkerOutput(w) ==
  /\ wpc[w] = "lockOutput"
  /\ queueMutex = "free"
  /\ queueMutex' = w
  /\ outputQueue' = push_back(outputQueue, wentry[w])
  /\ outLog' = Append(outLog, wentry[w].id)
  /\ dpc' = SignalProducer(dpc)
  /\ wentry' = [wentry EXCEPT ![w] = NoEntry]
  /\ wpc' = [wpc EXCEPT ![w] = "loop"]
  /\ UNCHANGED <<threads, cp, activeEncoders, workQueue, rectCount,
                 encoderQueue, stopRequested, dphase, doutput, nextId, wire,
                 encLog, prepLog, flushMark, ui, pb, renderedCursor, nRects,
                 changed, pending, queued, prepared, rd, wr, stats,
                 copyStats>>

\* does the worker that has just pushed onto encoderQueue[klass] take the
\* queue (size() == 1), or is it owned already (continue)
OwnsQueueAlways(queue) == TRUE
OwnsQueue(queue) == Len(queue) = 1

\* (a slip: the continue of a worker that does not own the queue unlocks)
WorkerQueueOrderedContinueUnlocked(w) ==
  /\ wpc[w] = "lockOrdered"
  /\ queueMutex = "free"
  /\ LET klass == activeEncoders[wentry[w].type]
         queue == push_back(encoderQueue[klass], wentry[w])
     IN  /\ encoderQueue' = [encoderQueue EXCEPT ![klass] = queue]
         /\ prepLog' = [prepLog EXCEPT ![klass] = Append(@, wentry[w].id)]
         /\ queueMutex' = "free"
         /\ IF OwnsQueue(queue)
            THEN /\ wentry' = [wentry EXCEPT ![w] = front(queue)]
                 /\ wpc' = [wpc EXCEPT ![w] = "encodeOrdered"]
            ELSE /\ wentry' = [wentry EXCEPT ![w] = NoEntry]
                 /\ wpc' = [wpc EXCEPT ![w] = "loop"]
  /\ UNCHANGED <<threads, cp, activeEncoders, workQueue, rectCount,
                 outputQueue, stopRequested, dpc, dphase, doutput, nextId,
                 wire, encLog, outLog, flushMark, ui, pb, renderedCursor,
                 nRects, changed, pending, queued, prepared, rd, wr, stats,
                 copyStats>>

\* the ordered encoder: lock; encoderQueue[klass].push_back(prep); then either
\* continue (still holding the mutex) or grab the front entry and unlock
WorkerQueueOrdered(w) ==
  /\ wpc[w] = "lockOrdered"
  /\ queueMutex = "free"
  /\ LET klass == activeEncoders[wentry[w].type]
         queue == push_back(encoderQueue[klass], wentry[w])
     IN  /\ encoderQueue' = [encoderQueue EXCEPT ![klass] = queue]
         /\ prepLog' = [prepLog EXCEPT ![klass] = Append(@, wentry[w].id)]
         /\ IF OwnsQueue(queue)
            THEN /\ wentry' = [wentry EXCEPT ![w] = front(queue)]
                 /\ wpc' = [wpc EXCEPT ![w] = "encodeOrdered"]
                 /\ queueMutex' = "free"
            ELSE /\ wentry' = [wentry EXCEPT ![w] = NoEntry]
                 /\ wpc' = [wpc EXCEPT ![w] = "loop"]
                 /\ queueMutex' = w
  /\ UNCHANGED <<threads, cp, activeEncoders, workQueue, rectCount,
                 outputQueue, stopRequested, dpc, dphase, doutput, nextId,
                 wire, encLog, outLog, flushMark, ui, pb, renderedCursor,
                 nRects, changed, pending, queued, prepared, rd, wr, stats,
                 copyStats>>

\* the ordered encoder: encodeRect of the front entry, without the mutex
WorkerEncodeOrdered(w) ==
  /\ wpc[w] = "encodeOrdered"
  /\ encLog' = [encLog EXCEPT ![activeEncoders[wentry[w].type]] =
                                 Append(@, wentry[w].id)]
  /\ wpc' = [wpc EXCEPT ![w] = "lockPop"]
  /\ UNCHANGED <<threads, cp, activeEncoders, workQueue, rectCount,
                 encoderQueue, outputQueue, queueMutex, stopRequested,
                 wentry, dpc, dphase, doutput, nextId, wire, outLog,
                 prepLog, flushMark, ui, pb, renderedCursor, nRects,
                 changed, pending, queued, prepared, rd, wr, stats,
                 copyStats>>

\* the ordered encoder: lock; pop_front; outputQueue.push_back; signal; then
\* while the queue is not empty grab its front and unlock, else fall to the
\* head of the loop holding the mutex
WorkerPopOrdered(w) ==
  /\ wpc[w] = "lockPop"
  /\ queueMutex = "free"
  /\ LET klass == activeEncoders[wentry[w].type]
         queue == pop_front(encoderQueue[klass])
     IN  /\ encoderQueue' = [encoderQueue EXCEPT ![klass] = queue]
         /\ outputQueue' = push_back(outputQueue, wentry[w])
         /\ outLog' = Append(outLog, wentry[w].id)
         /\ dpc' = SignalProducer(dpc)
         /\ IF queue # <<>>
            THEN /\ wentry' = [wentry EXCEPT ![w] = front(queue)]
                 /\ wpc' = [wpc EXCEPT ![w] = "encodeOrdered"]
                 /\ queueMutex' = "free"
            ELSE /\ wentry' = [wentry EXCEPT ![w] = NoEntry]
                 /\ wpc' = [wpc EXCEPT ![w] = "loop"]
                 /\ queueMutex' = w
  /\ UNCHANGED <<threads, cp, activeEncoders, workQueue, rectCount,
                 stopRequested, dphase, doutput, nextId, wire, encLog,
                 prepLog, flushMark, ui, pb, renderedCursor, nRects,
                 changed, pending, queued, prepared, rd, wr, stats,
                 copyStats>>

Next ==
  \/ WriteUpdate
  \/ queueSubRect
  \/ WriteRectsFlush
  \/ FlushLock
  \/ FlushLoop
  \/ FlushWake
  \/ FlushWrite
  \/ FlushReturn
  \/ CursorRect
  \/ NoCursor
  \/ UpdateEnd
  \/ Destroy
  \/ Stop
  \/ Join
  \/ \E w \in Threads : WorkerStart(w)
  \/ \E w \in Threads : WorkerLoop(w)
  \/ \E w \in Threads : WorkerWake(w)
  \/ \E w \in Threads : WorkerPrepare(w)
  \/ \E w \in Threads : WorkerEncode(w)
  \/ \E w \in Threads : WorkerOutput(w)
  \/ \E w \in Threads : WorkerQueueOrdered(w)
  \/ \E w \in Threads : WorkerEncodeOrdered(w)
  \/ \E w \in Threads : WorkerPopOrdered(w)

Spec == Init /\ [][Next]_vars

(***************************************************************************)
(* Properties of the scheduler (Spec).                                     *)
(***************************************************************************)
Ids(entries) == [i \in 1..Len(entries) |-> entries[i].id]

IsPrefix(s, t) == Len(s) <= Len(t) /\ \A i \in 1..Len(s) : s[i] = t[i]

\* rectangle ids are handed out in queueSubRect order, so "in the order
\* queueSubRect was called" is "with ids 1, 2, 3, ..."
InPushOrder(ids) == \A i \in 1..Len(ids) : ids[i] = i

Increasing(ids) == \A i, j \in 1..Len(ids) : i < j => ids[i] < ids[j]

OrderedClasses == {k \in EncoderClass : EncoderOrdered(k)}

\* the rectangles written so far whose role is served by class k
WireOfClass(k) ==
  SelectSeq(wire, LAMBDA e : activeEncoders[e.type] = k)

\* C1 as stated: the rectangles flush writes are in the order queueSubRect
\* was called for them, whatever the number of workers.
C1_WireInPushOrder == InPushOrder(Ids(wire))

\* C1 amended: flush writes the rectangles in the order their OutputEntries
\* were pushed onto outputQueue, the order in which the workers finished
\* them; that is the queueSubRect order when a single worker thread runs.
C1_WireInOutputOrder ==
  /\ Ids(wire) \o (IF doutput = NoEntry THEN <<>> ELSE <<doutput.id>>)
       \o Ids(outputQueue) = outLog
  /\ Cardinality(Threads) = 1 => InPushOrder(Ids(wire))

\* two workers, and the rectangle queued second was written first
C1_Witness ==
  /\ Cardinality(Threads) >= 2
  /\ Len(wire) >= 2
  /\ wire[1].id > wire[2].id

\* C2 as stated: an ordered class encodes its rectangles in the order they
\* were pushed onto the work queue.
C2_EncodeInPushOrder == \A k \in OrderedClasses : Increasing(encLog[k])

\* C2 amended: an ordered class encodes its rectangles in the order their
\* PreparedEntries were pushed onto encoderQueue[class] (the order in which
\* the workers finished prepareRect), and its rectangles are written to the
\* connection in that same order; with a single worker thread that is the
\* order of the work queue.
C2_EncodeInQueueOrder ==
  \A k \in OrderedClasses :
    /\ IsPrefix(encLog[k], prepLog[k])
    /\ IsPrefix(Ids(WireOfClass(k)), encLog[k])
    /\ Cardinality(Threads) = 1 => Increasing(encLog[k])

\* an ordered class has encoded two rectangles against their work queue order
C2_Witness ==
  \E k \in OrderedClasses :
    /\ Len(encLog[k]) >= 2
    /\ encLog[k][1] > encLog[k][2]

\* the workers that own the queue of class k: between taking its front
\* entry and popping it
Owners(k) ==
  {w \in Threads : /\ wpc[w] \in {"encodeOrdered", "lockPop"}
                   /\ activeEncoders[wentry[w].type] = k}

\* C3: no two workers are inside encodeRect for the same ordered class; the
\* queue of an ordered class is owned by exactly one worker while it is not
\* empty (by none when it is empty), and the owner works on its front entry.
C3_OneEncoderPerClass ==
  \A k \in OrderedClasses :
    /\ Cardinality(Owners(k)) = IF encoderQueue[k] = <<>> THEN 0 ELSE 1
    /\ \A w \in Owners(k) : wentry[w] = front(encoderQueue[k])
    /\ \A w \in Threads :
         (wpc[w] \in {"encode", "lockOutput"} /\ wentry[w] # NoEntry)
           => activeEncoders[wentry[w].type] # k

\* a worker is inside encodeRect for an ordered class whose queue also holds
\* a rectangle of another role, left there by another worker
C3_Witness ==
  \E k \in OrderedClasses, w \in Threads :
    /\ wpc[w] = "encodeOrdered"
    /\ w \in Owners(k)
    /\ Len(encoderQueue[k]) >= 2
    /\ encoderQueue[k][1].type # encoderQueue[k][2].type

\* C4: when flush returns rectCount is 0 and the rectangles written since
\* the previous flush returned are those queued since then, each once; and
\* no flush ever writes more rectangles than were queued.
C4_FlushDrainsAll ==
  /\ Len(wire) - flushMark[1] <= nextId - flushMark[2]
  /\ dpc = "flushRet" =>
       /\ rectCount = 0
       /\ Len(wire) - flushMark[1] = nextId - flushMark[2]
       /\ {wire[i].id : i \in (flushMark[1] + 1)..Len(wire)}
            = flushMark[2]..(nextId - 1)

\* the second flush of an update returns, having written a rectangle
C4_Witness ==
  /\ dpc = "flushRet"
  /\ dphase = "cursor"
  /\ flushMark[1] >= 1
  /\ Len(wire) > flushMark[1]

(***************************************************************************)
(* SpecEnc: prepareEncoders, as writeUpdate runs it, for every connection  *)
(* parameter it reads.                                                     *)
(***************************************************************************)
EncConns ==
  [preferred : Encodings,
   supported : SUBSET (EncoderClass \ {"encoderRaw"}),
   bpp : {8, 16, 32},
   subsampling : {"subsampleNone", "subsampleGray"}]

InitEnc ==
  /\ Constructed(ThreadCount(0))
  /\ cp \in EncConns

SpecEnc == InitEnc /\ [][WriteUpdate]_vars

\* the class written for a preferred encoding by the switch (preferred)
PreferredClass(preferred) ==
  CASE preferred = "encodingRRE" -> "encoderRRE"
    [] preferred = "encodingHextile" -> "encoderHextile"
    [] preferred = "encodingTight" -> "encoderTight"
    [] preferred = "encodingZRLE" -> "encoderZRLE"
    [] OTHER -> "encoderRaw"

Prepared == dpc = "writeRects"

\* C9 as stated: after prepareEncoders every role is served by Raw or by a
\* class whose isSupported(cp) is true.
C9_OnlySupported ==
  Prepared => \A t \in EncoderType : isSupported(activeEncoders[t], cp)

\* C9 amended: after prepareEncoders every role is served by Raw, by a class
\* whose isSupported(cp) is true, or by the class of the peer's preferred
\* encoding (RRE, Hextile, Tight, ZRLE), which the switch on the preferred
\* encoding assigns without asking isSupported; Tight-JPEG is selected only
\* when supported.
C9_SupportedOrPreferred ==
  Prepared =>
    \A t \in EncoderType :
      \/ isSupported(activeEncoders[t], cp)
      \/ activeEncoders[t] = PreferredClass(cp.preferred)

\* the preferred encoding's class is not supported and serves a role
C9_Witness ==
  /\ Prepared
  /\ ~isSupported(PreferredClass(cp.preferred), cp)
  /\ \E t \in EncoderType : activeEncoders[t] = PreferredClass(cp.preferred)
  /\ \E t \in EncoderType : activeEncoders[t] \notin
                              {"encoderRaw", PreferredClass(cp.preferred)}

\* The policy of section 4.2, role by role.
FirstSupported(ladder, c) ==
  IF \E i \in 1..Len(ladder) : isSupported(ladder[i], c)
  THEN ladder[CHOOSE i \in 1..Len(ladder) :
                /\ isSupported(ladder[i], c)
                /\ \A j \in 1..(i - 1) : ~isSupported(ladder[j], c)]
  ELSE "encoderRaw"

PolicyFullColour(c) ==
  LET jpeg == isSupported("encoderTightJPEG", c) /\ c.bpp >= 16 IN
  CASE c.preferred = "encodingHextile" -> "encoderHextile"
    [] c.preferred = "encodingZRLE" -> "encoderZRLE"
    [] c.preferred = "encodingTight" ->
         IF jpeg THEN "encoderTightJPEG" ELSE "encoderTight"
    [] OTHER ->
         IF jpeg THEN "encoderTightJPEG"
         ELSE FirstSupported(<<"encoderZRLE", "encoderTight", "encoderHextile">>, c)

PolicyIndexed(c) ==
  CASE c.preferred = "encodingTight" -> "encoderTight"
    [] c.preferred = "encodingZRLE" -> "encoderZRLE"
    [] OTHER ->
         FirstSupported(<<"encoderZRLE", "encoderTight", "encoderHextile">>, c)

PolicyBitmap(c) == PolicyIndexed(c)

PolicyIndexedRLE(c) ==
  IF c.preferred \in {"encodingRRE", "encodingHextile"}
  THEN PreferredClass(c.preferred) ELSE PolicyIndexed(c)

PolicyBitmapRLE(c) ==
  IF c.preferred \in {"encodingRRE", "encodingHextile"}
  THEN PreferredClass(c.preferred) ELSE PolicyBitmap(c)

PolicySolid(c) ==
  FirstSupported(<<"encoderTight", "encoderRRE", "encoderZRLE",
                   "encoderHextile">>, c)

Policy(c) ==
  [t \in EncoderType |->
     CASE t = "encoderSolid" -> PolicySolid(c)
       [] t = "encoderBitmap" -> PolicyBitmap(c)
       [] t = "encoderBitmapRLE" -> PolicyBitmapRLE(c)
       [] t = "encoderIndexed" -> PolicyIndexed(c)
       [] t = "encoderIndexedRLE" -> PolicyIndexedRLE(c)
       [] t = "encoderFullColour" -> PolicyFullColour(c)]

GrayApplies(c) ==
  c.subsampling = "subsampleGray" /\ isSupported("encoderTightJPEG", c)

\* C11: with subsampling Gray and Tight-JPEG supported all six roles are
\* Tight-JPEG after prepareEncoders, whatever the preferred encoding and the
\* peer's bpp; otherwise the roles are as assigned before the override.
C11_GrayOverride ==
  Prepared =>
    IF cp.subsampling = "subsampleGray" /\ "encoderTightJPEG" \in cp.supported
    THEN \A t \in EncoderType : activeEncoders[t] = "encoderTightJPEG"
    ELSE activeEncoders = AssignedBeforeGray(cp)

\* the override on a peer of 8 bpp preferring ZRLE, where no role would be
\* Tight-JPEG without it
C11_Witness ==
  /\ Prepared
  /\ cp.subsampling = "subsampleGray"
  /\ "encoderTightJPEG" \in cp.supported
  /\ cp.preferred = "encodingZRLE"
  /\ cp.bpp = 8
  /\ \A t \in EncoderType : AssignedBeforeGray(cp)[t] # "encoderTightJPEG"
  /\ \A t \in EncoderType : activeEncoders[t] = "encoderTightJPEG"

\* C10: when the grayscale override does not apply, prepareEncoders yields
\* the mapping of the policy of section 4.2 (preferred encoding first, then
\* the ladders for the roles still Raw).
C10_MatchesPolicy ==
  (Prepared /\ ~GrayApplies(cp)) => activeEncoders = Policy(cp)

\* preferred RRE with Tight, RRE and ZRLE supported: the RLE roles are RRE,
\* the other palette roles and FullColour ZRLE, Solid Tight
C10_Witness ==
  /\ Prepared
  /\ ~GrayApplies(cp)
  /\ cp.preferred = "encodingRRE"
  /\ activeEncoders["encoderBitmapRLE"] = "encoderRRE"
  /\ activeEncoders["encoderBitmap"] = "encoderZRLE"
  /\ activeEncoders["encoderFullColour"] = "encoderZRLE"
  /\ activeEncoders["encoderSolid"] = "encoderTight"

(***************************************************************************)
(* Geometry: Rect, Region and the PixelBuffer.                             *)
(***************************************************************************)
Min(a, b) == IF a < b THEN a ELSE b
Max(a, b) == IF a > b THEN a ELSE b

Rect(x1, y1, x2, y2) == [tl |-> [x |-> x1, y |-> y1], br |-> [x |-> x2, y |-> y2]]
setXYWH(x, y, w, h) == Rect(x, y, x + w, y + h)
width(r) == r.br.x - r.tl.x
height(r) == r.br.y - r.tl.y
area(r) == width(r) * height(r)
is_empty(r) == r.br.x <= r.tl.x \/ r.br.y <= r.tl.y
intersect(a, b) ==
  Rect(Max(a.tl.x, b.tl.x), Max(a.tl.y, b.tl.y),
       Min(a.br.x, b.br.x), Min(a.br.y, b.br.y))
overlaps(a, b) == ~is_empty(intersect(a, b))
enclosed_by(a, b) ==
  a.tl.x >= b.tl.x /\ a.tl.y >= b.tl.y /\ a.br.x <= b.br.x /\ a.br.y <= b.br.y

\* A Region is kept as its rectangles, non-overlapping, in y-x order.
get_rects(region) == region
numRects(region) == Len(region)

\* r minus e, as the bands above, beside and below e
RectSubtract(r, e) ==
  IF ~overlaps(r, e) THEN <<r>>
  ELSE LET i == intersect(r, e) IN
       SelectSeq(<<Rect(r.tl.x, r.tl.y, r.br.x, i.tl.y),
                   Rect(r.tl.x, i.tl.y, i.tl.x, i.br.y),
                   Rect(i.br.x, i.tl.y, r.br.x, i.br.y),
                   Rect(r.tl.x, i.br.y, r.br.x, r.br.y)>>,
                 LAMBDA p : ~is_empty(p))

\* Region::assign_subtract(Region(e))
RECURSIVE assign_subtract(_, _)
assign_subtract(region, e) ==
  IF region = <<>> THEN <<>>
  ELSE RectSubtract(Head(region), e) \o assign_subtract(Tail(region), e)

\* must a come before b in get_rects(&rects, left2right, topdown)
RectBefore(a, b, left2right, topdown) ==
  IF a.tl.y # b.tl.y
  THEN (IF topdown THEN a.tl.y < b.tl.y ELSE a.tl.y > b.tl.y)
  ELSE (IF left2right THEN a.tl.x < b.tl.x ELSE a.tl.x > b.tl.x)

\* Region::get_rects(&rects, left2right, topdown)
get_rects_ordered(region, left2right, topdown) ==
  LET n == Len(region)
      rank(i) == Cardinality({j \in 1..n :
                    RectBefore(region[j], region[i], left2right, topdown)})
  IN  [k \in 1..n |-> region[CHOOSE i \in 1..n : rank(i) = k - 1]]

\* The PixelBuffer: a background colour with non-overlapping patches over it,
\* each of one colour or of noise (no two pixels of a noise patch alike).
getImage(buf, x, y) ==
  LET hit == {i \in 1..Len(buf.patches) :
                overlaps(buf.patches[i].rect, setXYWH(x, y, 1, 1))}
  IN  IF hit = {} THEN buf.bg
      ELSE LET p == buf.patches[CHOOSE i \in hit : TRUE]
           IN  IF p.noise THEN 1000 + 8192 * y + x ELSE p.colour

RECURSIVE CoveredArea(_, _)
CoveredArea(patches, r) ==
  IF patches = <<>> THEN 0
  ELSE (IF overlaps(Head(patches).rect, r)
        THEN area(intersect(Head(patches).rect, r)) ELSE 0)
       + CoveredArea(Tail(patches), r)

\* checkSolidTile: is every pixel of r of the colour colourValue
checkSolidTile(r, colourValue, buf) ==
  /\ \A i \in 1..Len(buf.patches) :
       overlaps(buf.patches[i].rect, r) =>
         IF buf.patches[i].noise
         THEN area(r) = 1 /\ colourValue = getImage(buf, r.tl.x, r.tl.y)
         ELSE buf.patches[i].colour = colourValue
  /\ (CoveredArea(buf.patches, r) = area(r) \/ buf.bg = colourValue)

(***************************************************************************)
(* The solid finder.                                                       *)
(***************************************************************************)
\* extendSolidAreaByBlock, the inner loop: the dx it stops at
RECURSIVE ExtendBlockColumns(_, _, _, _, _, _, _)
ExtendBlockColumns(r, colourValue, buf, dy, dh, dx, w_prev) ==
  IF dx >= r.tl.x + w_prev THEN dx
  ELSE LET dw == Min(SolidSearchBlock, r.tl.x + w_prev - dx) IN
       IF ~checkSolidTile(setXYWH(dx, dy, dw, dh), colourValue, buf) THEN dx
       ELSE ExtendBlockColumns(r, colourValue, buf, dy, dh, dx + dw, w_prev)

\* extendSolidAreaByBlock, the outer loop: <<w_best, h_best>>
RECURSIVE ExtendBlockRows(_, _, _, _, _, _, _)
ExtendBlockRows(r, colourValue, buf, dy, w_prev, w_best, h_best) ==
  IF dy >= r.br.y THEN <<w_best, h_best>>
  ELSE LET dh == Min(SolidSearchBlock, r.br.y - dy)
           dw == Min(SolidSearchBlock, w_prev)
       IN  IF ~checkSolidTile(setXYWH(r.tl.x, dy, dw, dh), colourValue, buf)
           THEN <<w_best, h_best>>
           ELSE LET dx == ExtendBlockColumns(r, colourValue, buf, dy, dh,
                                             r.tl.x + dw, w_prev)
                    w == dx - r.tl.x
                    h == dy + dh - r.tl.y
                IN  IF w * h > w_best * h_best
                    THEN ExtendBlockRows(r, colourValue, buf,
                                         dy + SolidSearchBlock, w, w, h)
                    ELSE ExtendBlockRows(r, colourValue, buf,
                                         dy + SolidSearchBlock, w, w_best, h_best)

\* (a slip: the area is the first block, never extended)
extendSolidAreaFirstBlock(r, colourValue, buf) ==
  setXYWH(r.tl.x, r.tl.y, Min(SolidSearchBlock, width(r)),
          Min(SolidSearchBlock, height(r)))

extendSolidAreaByBlock(r, colourValue, buf) ==
  LET best == ExtendBlockRows(r, colourValue, buf, r.tl.y, width(r), 0, 0)
  IN  setXYWH(r.tl.x, r.tl.y, best[1], best[2])

\* extendSolidAreaByPixel, its four loops: the cy / cx each stops at
RECURSIVE ExtendUp(_, _, _, _, _)
ExtendUp(r, sr, colourValue, buf, cy) ==
  IF cy < r.tl.y THEN cy
  ELSE IF ~checkSolidTile(setXYWH(sr.tl.x, cy, width(sr), 1), colourValue, buf)
  THEN cy
  ELSE ExtendUp(r, sr, colourValue, buf, cy - 1)

RECURSIVE ExtendDown(_, _, _, _, _)
ExtendDown(r, sr, colourValue, buf, cy) ==
  IF cy >= r.br.y THEN cy
  ELSE IF ~checkSolidTile(setXYWH(sr.tl.x, cy, width(sr), 1), colourValue, buf)
  THEN cy
  ELSE ExtendDown(r, sr, colourValue, buf, cy + 1)

RECURSIVE ExtendLeft(_, _, _, _, _, _)
ExtendLeft(r, top, bottom, colourValue, buf, cx) ==
  IF cx < r.tl.x THEN cx
  ELSE IF ~checkSolidTile(setXYWH(cx, top, 1, bottom - top), colourValue, buf)
  THEN cx
  ELSE ExtendLeft(r, top, bottom, colourValue, buf, cx - 1)

RECURSIVE ExtendRight(_, _, _, _, _, _)
ExtendRight(r, top, bottom, colourValue, buf, cx) ==
  IF cx >= r.br.x THEN cx
  ELSE IF ~checkSolidTile(setXYWH(cx, top, 1, bottom - top), colourValue, buf)
  THEN cx
  ELSE ExtendRight(r, top, bottom, colourValue, buf, cx + 1)

\* (a slip: the area is taken to be all of r)
extendSolidAreaWhole(r, sr, colourValue, buf) == r

extendSolidAreaByPixel(r, sr, colourValue, buf) ==
  LET top == ExtendUp(r, sr, colourValue, buf, sr.tl.y - 1) + 1
      bottom == ExtendDown(r, sr, colourValue, buf, sr.br.y)
      left == ExtendLeft(r, top, bottom, colourValue, buf, sr.tl.x - 1) + 1
      right == ExtendRight(r, top, bottom, colourValue, buf, sr.br.x)
  IN  Rect(left, top, right, bottom)

\* findSolidRect: the solid rectangles it writes, in the order written.
\* FindSolidFrom is its pair of loops from the tile at (dx, dy) on,
\* SolidAndRemainders what it does once erp is known.
RECURSIVE FindSolidFrom(_, _, _, _)
RECURSIVE SolidAndRemainders(_, _, _)

findSolidRect(rect, buf) == FindSolidFrom(rect, buf, rect.tl.x, rect.tl.y)

FindSolidFrom(rect, buf, dx, dy) ==
  IF dy >= rect.br.y THEN <<>>
  ELSE IF dx >= rect.br.x
  THEN FindSolidFrom(rect, buf, rect.tl.x, dy + SolidSearchBlock)
  ELSE LET dh == Min(SolidSearchBlock, rect.br.y - dy)
           dw == Min(SolidSearchBlock, rect.br.x - dx)
           colourValue == getImage(buf, dx, dy)
       IN  IF ~checkSolidTile(setXYWH(dx, dy, dw, dh), colourValue, buf)
           THEN FindSolidFrom(rect, buf, dx + SolidSearchBlock, dy)
           ELSE LET erb == extendSolidAreaByBlock(
                             setXYWH(dx, dy, rect.br.x - dx, rect.br.y - dy),
                             colourValue, buf)
                IN  IF erb = rect
                    THEN SolidAndRemainders(rect, buf, erb)
                    ELSE IF area(erb) < SolidBlockMinArea
                    THEN FindSolidFrom(rect, buf, dx + SolidSearchBlock, dy)
                    ELSE SolidAndRemainders(rect, buf,
                           extendSolidAreaByPixel(rect, erb, colourValue, buf))

\* (a slip: the remainder below starts under the seed's row of blocks)
SolidAndRemaindersFromSeedRow(rect, buf, erp) ==
  <<erp>>
  \o (IF erp.tl.x # rect.tl.x /\ height(erp) > SolidSearchBlock
      THEN findSolidRect(setXYWH(rect.tl.x, erp.tl.y + SolidSearchBlock,
                                 erp.tl.x - rect.tl.x,
                                 height(erp) - SolidSearchBlock), buf)
      ELSE <<>>)
  \o (IF erp.br.x # rect.br.x
      THEN findSolidRect(setXYWH(erp.br.x, erp.tl.y, rect.br.x - erp.br.x,
                                 height(erp)), buf)
      ELSE <<>>)
  \o (IF erp.br.y # rect.br.y
      THEN findSolidRect(setXYWH(rect.tl.x, erp.tl.y + SolidSearchBlock,
                                 width(rect),
                                 rect.br.y - erp.tl.y - SolidSearchBlock), buf)
      ELSE <<>>)

SolidAndRemainders(rect, buf, erp) ==
  <<erp>>
  \o (IF erp.tl.x # rect.tl.x /\ height(erp) > SolidSearchBlock
      THEN findSolidRect(setXYWH(rect.tl.x, erp.tl.y + SolidSearchBlock,
                                 erp.tl.x - rect.tl.x,
                                 height(erp) - SolidSearchBlock), buf)
      ELSE <<>>)
  \o (IF erp.br.x # rect.br.x
      THEN findSolidRect(setXYWH(erp.br.x, erp.tl.y, rect.br.x - erp.br.x,
                                 height(erp)), buf)
      ELSE <<>>)
  \o (IF erp.br.y # rect.br.y
      THEN findSolidRect(setXYWH(rect.tl.x, erp.br.y, width(rect),
                                 rect.br.y - erp.br.y), buf)
      ELSE <<>>)

\* writeSolidRects: findSolidRect on each rectangle of the region
RECURSIVE writeSolidRects(_, _)
writeSolidRects(rects, buf) ==
  IF rects = <<>> THEN <<>>
  ELSE findSolidRect(Head(rects), buf) \o writeSolidRects(Tail(rects), buf)

\* (a slip: the solid rectangles stay in the region)
LeaveSolids(region, solids) == region

\* changed->assign_subtract(Region(erp)) for each solid rectangle written
RECURSIVE SubtractSolids(_, _)
SubtractSolids(region, solids) ==
  IF solids = <<>> THEN region
  ELSE SubtractSolids(assign_subtract(region, Head(solids)), Tail(solids))

(***************************************************************************)
(* computeNumRects and the splitting of writeRects.                        *)
(***************************************************************************)
\* (a slip: the count of whole sub-rectangles only)
numSubRectsWhole(w, h) ==
  IF w * h < SubRectMaxArea /\ w < SubRectMaxWidth THEN 1
  ELSE LET sw == IF w <= SubRectMaxWidth THEN w ELSE SubRectMaxWidth
           sh == SubRectMaxArea \div sw
       IN  (w \div sw) * (h \div sh)

\* computeNumRects, the body of its loop
numSubRects(w, h) ==
  IF w * h < SubRectMaxArea /\ w < SubRectMaxWidth THEN 1
  ELSE LET sw == IF w <= SubRectMaxWidth THEN w ELSE SubRectMaxWidth
           sh == SubRectMaxArea \div sw
       IN  (((w - 1) \div sw) + 1) * (((h - 1) \div sh) + 1)

RECURSIVE computeNumRects(_)
computeNumRects(region) ==
  IF region = <<>> THEN 0
  ELSE numSubRects(width(Head(get_rects(region))), height(Head(get_rects(region))))
       + computeNumRects(Tail(get_rects(region)))

\* (a slip: one row too many in each sub-rectangle)
SubRectHeightPlusOne(sw) == SubRectMaxArea \div sw + 1

\* writeRects: sh = SubRectMaxArea / sw
SubRectHeight(sw) == SubRectMaxArea \div sw

\* (a slip: sr.br.x is not clipped to the rectangle)
RECURSIVE SplitColumnsUnclipped(_, _, _, _, _)
SplitColumnsUnclipped(rect, sw, top, bottom, x) ==
  IF x >= rect.br.x THEN <<>>
  ELSE <<Rect(x, top, x + sw, bottom)>>
       \o SplitColumnsUnclipped(rect, sw, top, bottom, x + sw)

\* writeRects, the inner loop over sr.tl.x
RECURSIVE SplitColumns(_, _, _, _, _)
SplitColumns(rect, sw, top, bottom, x) ==
  IF x >= rect.br.x THEN <<>>
  ELSE <<Rect(x, top, Min(x + sw, rect.br.x), bottom)>>
       \o SplitColumns(rect, sw, top, bottom, x + sw)

\* writeRects, the outer loop over sr.tl.y
RECURSIVE SplitRows(_, _, _, _)
SplitRows(rect, sw, sh, y) ==
  IF y >= rect.br.y THEN <<>>
  ELSE SplitColumns(rect, sw, y, Min(y + sh, rect.br.y), rect.tl.x)
       \o SplitRows(rect, sw, sh, y + sh)

\* writeRects: the rectangles it passes to queueSubRect for one rect
SubRects(rect) ==
  IF area(rect) < SubRectMaxArea /\ width(rect) < SubRectMaxWidth
  THEN <<rect>>
  ELSE LET sw == IF width(rect) <= SubRectMaxWidth
                 THEN width(rect) ELSE SubRectMaxWidth
       IN  SplitRows(rect, sw, SubRectHeight(sw), rect.tl.y)

\* writeRects: the same over the rects of the region, in order
RECURSIVE RegionSubRects(_)
RegionSubRects(rects) ==
  IF rects = <<>> THEN <<>>
  ELSE SubRects(Head(rects)) \o RegionSubRects(Tail(rects))

(***************************************************************************)
(* SpecUpd: one writeUpdate, on a machine with one encoder thread.         *)
(***************************************************************************)
NoisePatch(r) == [rect |-> r, noise |-> TRUE, colour |-> 0]
ColourPatch(r, c) == [rect |-> r, noise |-> FALSE, colour |-> c]

\* framebuffers: one colour all over; a solid area of 96x56 at (19, 5) framed
\* by noise; two colours side by side; two colours side by side over a
\* third; solid left of noise; a solid area of
\* 32x32 (under SolidBlockMinArea) in noise; noise all over
Plain == [bg |-> 7, patches |-> <<>>]
Framed ==
  [bg |-> 7,
   patches |-> <<NoisePatch(Rect(0, 0, 128, 5)), NoisePatch(Rect(0, 5, 19, 61)),
                 NoisePatch(Rect(115, 5, 128, 61)),
                 NoisePatch(Rect(0, 61, 128, 80))>>]
TwoColours == [bg |-> 1, patches |-> <<ColourPatch(Rect(64, 0, 128, 80), 2)>>]
ThreeColours ==
  [bg |-> 1, patches |-> <<ColourPatch(Rect(64, 0, 128, 48), 2),
                           ColourPatch(Rect(0, 48, 128, 80), 3)>>]
RightNoise == [bg |-> 7, patches |-> <<NoisePatch(Rect(48, 0, 128, 80))>>]
SmallSolid ==
  [bg |-> 7,
   patches |-> <<NoisePatch(Rect(0, 0, 128, 16)), NoisePatch(Rect(0, 16, 16, 48)),
                 NoisePatch(Rect(48, 16, 128, 48)),
                 NoisePatch(Rect(0, 48, 128, 80))>>]
AllNoise == [bg |-> 7, patches |-> <<NoisePatch(Rect(0, 0, 8192, 8192))>>]

\* changed regions inside the 128x80 corner the framebuffers above differ in
SmallRegions ==
  { <<>>,
    <<setXYWH(3, 7, 1, 1)>>,
    <<setXYWH(20, 6, 10, 3)>>,
    <<Rect(0, 0, 128, 80)>>,
    <<Rect(0, 0, 128, 64), Rect(0, 64, 100, 80)>>,
    <<Rect(16, 8, 112, 72)>> }

\* changed regions around the limits of the splitting
LargeRegions ==
  { <<>>,
    <<setXYWH(3, 7, 1, 1)>>,
    <<setXYWH(3, 7, 100, 50)>>,
    <<setXYWH(3, 7, 2047, 32)>>,
    <<setXYWH(3, 7, 2048, 31)>>,
    <<setXYWH(3, 7, 2048, 32)>>,
    <<setXYWH(3, 7, 2049, 33)>>,
    <<setXYWH(3, 7, 1024, 64)>>,
    <<setXYWH(3, 7, 300, 300)>>,
    <<setXYWH(0, 0, 2048, 40), setXYWH(0, 100, 50, 20)>> }

\* the 4096x1024 update: 64 sub-rectangles
HugeRegions == { <<setXYWH(0, 0, 4096, 1024)>> }

\* copied regions, clear of every changed region
CopiedRegions ==
  { <<>>, <<setXYWH(0, 9000, 30, 30), setXYWH(40, 9000, 20, 30),
            setXYWH(0, 9030, 60, 10)>> }

UpdateInfos(changedRegions) ==
  { u \in [changed : changedRegions, copied : CopiedRegions,
           copy_delta : {[x |-> -5, y |-> -5], [x |-> 5, y |-> 0],
                         [x |-> 0, y |-> 5]}] :
      u.copied = <<>> => u.copy_delta.x < 0 }

Cursors == {NULL, [present |-> TRUE, rect |-> setXYWH(10, 10, 32, 32)]}

\* the writeUpdate calls of the model: <<ui, pb, renderedCursor>>; the solid
\* finder runs on the small regions only, the 4096x1024 update is on its own
Updates(lastRect) ==
  (UpdateInfos(SmallRegions)
     \X {Plain, Framed, TwoColours, ThreeColours, RightNoise, SmallSolid}
     \X Cursors)
  \cup (IF lastRect THEN {}
        ELSE (UpdateInfos(LargeRegions) \X {Plain, AllNoise} \X Cursors)
             \cup ({u \in UpdateInfos(HugeRegions) : u.copied = <<>>}
                     \X {Plain} \X {NULL}))

\* a peer with LastRect (Tight, with Tight-JPEG for FullColour) and one
\* without (ZRLE)
UpdConns ==
  { [preferred |-> c.preferred, bpp |-> c.bpp, subsampling |-> c.subsampling,
     supported |-> c.supported,
     supportsLastRect |-> (c.preferred = "encodingTight")] :
      c \in {d \in SchedConns : d.bpp = 32} }

InitUpd ==
  /\ Constructed(ThreadCount(1))
  /\ cp \in UpdConns

RECURSIVE NoiseArea(_, _)
NoiseArea(patches, r) ==
  IF patches = <<>> THEN 0
  ELSE (IF Head(patches).noise /\ overlaps(Head(patches).rect, r)
        THEN area(intersect(Head(patches).rect, r)) ELSE 0)
       + NoiseArea(Tail(patches), r)

\* analyseRect and the guess of prepareRect: the palette (empty when the
\* colours are more than a palette holds) and useRLE, rleRuns being at most
\* the area
analyseRect(r, buf) ==
  LET colours == {buf.patches[i].colour : i \in {j \in 1..Len(buf.patches) :
                     ~buf.patches[j].noise /\ overlaps(buf.patches[j].rect, r)}}
                 \cup (IF CoveredArea(buf.patches, r) < area(r)
                       THEN {buf.bg} ELSE {})
      n == Cardinality(colours) + NoiseArea(buf.patches, r)
  IN  [palette |-> IF n > 256 THEN 0 ELSE n, useRLE |-> TRUE]

\* (a slip: the cursor rectangle is not counted)
UpdateNumRectsNoCursor(u, cursor, lastRect) ==
  IF lastRect THEN LastRectCount
  ELSE numRects(u.copied) + computeNumRects(u.changed)

\* writeUpdate: the nRects of the header
UpdateNumRects(u, cursor, lastRect) ==
  IF lastRect THEN LastRectCount
  ELSE numRects(u.copied) + computeNumRects(u.changed)
       + (IF cursor.present THEN 1 ELSE 0)

\* writeUpdate up to writeFramebufferUpdateStart(nRects)
writeUpdate ==
  /\ dpc = "idle"
  /\ nRects = -1
  /\ \E call \in Updates(cp.supportsLastRect) :
       /\ ui' = call[1]
       /\ pb' = call[2]
       /\ renderedCursor' = call[3]
       /\ nRects' = UpdateNumRects(call[1], call[3], cp.supportsLastRect)
  /\ activeEncoders' = prepareEncoders(cp)
  /\ dphase' = "rects"
  /\ dpc' = "copyRects"
  /\ UNCHANGED <<threads, cp, workQueue, rectCount, encoderQueue,
                 outputQueue, queueMutex, stopRequested, wpc, wentry,
                 doutput, nextId, wire, encLog, outLog, prepLog, flushMark,
                 changed, pending, queued, prepared, rd, wr, stats,
                 copyStats>>

\* (a slip: the source is taken ahead of the rectangle, not behind it)
CopyRectRecordAhead(r, delta) ==
  [id |-> 0, type |-> "copyRect", rect |-> r,
   src |-> [x |-> r.tl.x + delta.x, y |-> r.tl.y + delta.y]]

\* writeCopyRect(*rect, rect->tl.x - delta.x, rect->tl.y - delta.y)
CopyRectRecord(r, delta) ==
  [id |-> 0, type |-> "copyRect", rect |-> r,
   src |-> [x |-> r.tl.x - delta.x, y |-> r.tl.y - delta.y]]

\* writeCopyRects, then changed.copyFrom(ui.changed)
writeCopyRects ==
  /\ dpc = "copyRects"
  /\ LET rects == get_rects_ordered(ui.copied, ui.copy_delta.x <= 0,
                                    ui.copy_delta.y <= 0)
         RECURSIVE counted(_, _)
         counted(st, i) ==
           IF i > Len(rects) THEN st
           ELSE counted([rects |-> st.rects + 1,
                         pixels |-> st.pixels + area(rects[i])], i + 1)
     IN  /\ wire' = wire \o [i \in 1..Len(rects) |->
                               CopyRectRecord(rects[i], ui.copy_delta)]
         /\ copyStats' = counted(copyStats, 1)
  /\ changed' = ui.changed
  /\ dpc' = IF cp.supportsLastRect THEN "solidRects" ELSE "splitRects"
  /\ UNCHANGED <<threads, cp, activeEncoders, workQueue, rectCount,
                 encoderQueue, outputQueue, queueMutex, stopRequested, wpc,
                 wentry, dphase, doutput, nextId, encLog, outLog, prepLog,
                 flushMark, ui, pb, renderedCursor, nRects, pending, queued,
                 prepared, rd, wr, stats>>

\* writeSolidRects(&changed, pb): each solid rectangle is written between
\* startRect(erp, encoderSolid) and endRect, and subtracted from changed
WriteSolidRects ==
  /\ dpc = "solidRects"
  /\ LET solids == writeSolidRects(get_rects(changed), pb)
         RECURSIVE started(_, _)
         started(st, i) ==
           IF i > Len(solids) THEN st
           ELSE started(startRect(st, activeEncoders, "encoderSolid",
                                  solids[i]), i + 1)
     IN  /\ wire' = wire \o [i \in 1..Len(solids) |->
                    [id |-> 0, type |-> "encoderSolid", rect |-> solids[i]]]
         /\ stats' = started(stats, 1)
         /\ changed' = SubtractSolids(changed, solids)
  /\ dpc' = "splitRects"
  /\ UNCHANGED <<threads, cp, activeEncoders, workQueue, rectCount,
                 encoderQueue, outputQueue, queueMutex, stopRequested, wpc,
                 wentry, dphase, doutput, nextId, encLog, outLog, prepLog,
                 flushMark, ui, pb, renderedCursor, nRects, pending, queued,
                 prepared, rd, wr, copyStats>>

\* writeRects(changed, pb): the sub-rectangles its loops will queue
writeRects ==
  /\ dpc = "splitRects"
  /\ pending' = RegionSubRects(get_rects(changed))
  /\ dpc' = "writeRects"
  /\ UNCHANGED <<threads, cp, activeEncoders, workQueue, rectCount,
                 encoderQueue, outputQueue, queueMutex, stopRequested, wpc,
                 wentry, dphase, doutput, nextId, wire, encLog, outLog,
                 prepLog, flushMark, ui, pb, renderedCursor, nRects,
                 changed, queued, prepared, rd, wr, stats, copyStats>>

\* one iteration of the loops of writeRects: queueSubRect(sr, pb)
QueueNextSubRect ==
  /\ dpc = "writeRects"
  /\ pending # <<>>
  /\ QueueEffect(analyseRect(Head(pending), pb))
  /\ queued' = Append(queued, [rect |-> Head(pending), from |-> "writeRects"])
  /\ pending' = Tail(pending)
  /\ UNCHANGED <<threads, cp, activeEncoders, encoderQueue, outputQueue,
                 queueMutex, stopRequested, wentry, dpc, dphase, doutput,
                 wire, encLog, outLog, prepLog, flushMark, ui, pb,
                 renderedCursor, nRects, changed, prepared, rd, wr, stats,
                 copyStats>>

\* renderedCursor != NULL: queueSubRect(renderedCursorRect, renderedCursor);
\* flush()
QueueCursorRect ==
  /\ dpc = "cursor"
  /\ renderedCursor.present
  /\ QueueEffect(analyseRect(renderedCursor.rect, Plain))
  /\ queued' = Append(queued, [rect |-> renderedCursor.rect, from |-> "cursor"])
  /\ dphase' = "cursor"
  /\ dpc' = "flushLock"
  /\ UNCHANGED <<threads, cp, activeEncoders, encoderQueue, outputQueue,
                 queueMutex, stopRequested, wentry, doutput, wire, encLog,
                 outLog, prepLog, flushMark, ui, pb, renderedCursor, nRects,
                 changed, pending, prepared, rd, wr, stats, copyStats>>

\* renderedCursor == NULL
SkipCursor ==
  /\ dpc = "cursor"
  /\ ~renderedCursor.present
  /\ dpc' = "end"
  /\ UNCHANGED <<threads, cp, activeEncoders, workQueue, rectCount,
                 encoderQueue, outputQueue, queueMutex, stopRequested, wpc,
                 wentry, dphase, doutput, nextId, wire, encLog, outLog,
                 prepLog, flushMark, ui, pb, renderedCursor, nRects,
                 changed, pending, queued, prepared, rd, wr, stats,
                 copyStats>>

NextUpd ==
  \/ writeUpdate
  \/ writeCopyRects
  \/ WriteSolidRects
  \/ writeRects
  \/ QueueNextSubRect
  \/ WriteRectsFlush
  \/ FlushLock
  \/ FlushLoop
  \/ FlushWake
  \/ FlushWrite
  \/ FlushReturn
  \/ QueueCursorRect
  \/ SkipCursor
  \/ UpdateEnd
  \/ \E w \in Threads : WorkerStart(w)
  \/ \E w \in Threads : WorkerLoop(w)
  \/ \E w \in Threads : WorkerWake(w)
  \/ \E w \in Threads : WorkerPrepare(w)
  \/ \E w \in Threads : WorkerEncode(w)
  \/ \E w \in Threads : WorkerOutput(w)
  \/ \E w \in Threads : WorkerQueueOrdered(w)
  \/ \E w \in Threads : WorkerEncodeOrdered(w)
  \/ \E w \in Threads : WorkerPopOrdered(w)

SpecUpd == InitUpd /\ [][NextUpd]_vars

(***************************************************************************)
(* Properties of writeUpdate (SpecUpd).                                    *)
(***************************************************************************)
HeaderWritten == nRects # -1
Finished == dpc = "idle" /\ HeaderWritten

\* the rectangle of a record on the wire
RectOf(e) == IF e.id = 0 THEN e.rect ELSE queued[e.id].rect
IsCursor(e) == e.id # 0 /\ queued[e.id].from = "cursor"
IsSolidWrite(e) == e.id = 0 /\ e.type = "encoderSolid"
IsCopyRect(e) == e.id = 0 /\ e.type = "copyRect"
IsGeneral(e) == e.id # 0 /\ queued[e.id].from = "writeRects"

RECURSIVE SumArea(_)
SumArea(rects) ==
  IF rects = <<>> THEN 0 ELSE area(Head(rects)) + SumArea(Tail(rects))

RECURSIVE AreaWithin(_, _)
AreaWithin(r, rects) ==
  IF rects = <<>> THEN 0
  ELSE (IF overlaps(r, Head(rects)) THEN area(intersect(r, Head(rects))) ELSE 0)
       + AreaWithin(r, Tail(rects))

\* C5: without LastRect the nRects of the header is the number of rectangles
\* written in the update (CopyRect records and startRect/endRect pairs, the
\* cursor's included); with LastRect the header holds 0xFFFF.
C5_HeaderCount ==
  HeaderWritten =>
    IF cp.supportsLastRect THEN nRects = LastRectCount
    ELSE /\ Len(wire) <= nRects
         /\ Finished => Len(wire) = nRects

\* an update without LastRect with CopyRects, a split rectangle and a cursor
C5_Witness ==
  /\ Finished
  /\ ~cp.supportsLastRect
  /\ renderedCursor.present
  /\ \E i \in 1..Len(wire) : IsCopyRect(wire[i])
  /\ \E i \in 1..Len(wire) : IsCursor(wire[i])
  /\ Len(queued) > Len(ui.changed) + 1
  /\ nRects = Len(wire)

\* the rectangles written for changed and copied: all but the cursor's
UpdateRects ==
  LET recs == SelectSeq(wire, LAMBDA e : ~IsCursor(e))
  IN  [i \in 1..Len(recs) |-> RectOf(recs[i])]

SubRectsQueued ==
  LET recs == SelectSeq(queued, LAMBDA q : q.from = "writeRects")
  IN  [i \in 1..Len(recs) |-> recs[i].rect]

\* C7 as stated: every rectangle writeRects passes to queueSubRect has an
\* area strictly below SubRectMaxArea and a width strictly below
\* SubRectMaxWidth.
C7_StrictlyBelow ==
  LET rects == SubRectsQueued
  IN  \A i \in 1..Len(rects) :
        /\ area(rects[i]) < SubRectMaxArea
        /\ width(rects[i]) < SubRectMaxWidth

\* C7 amended: every rectangle writeRects passes to queueSubRect has an area
\* of at most SubRectMaxArea and a width of at most SubRectMaxWidth.
C7_NoLarger ==
  LET rects == SubRectsQueued
  IN  \A i \in 1..Len(rects) :
        /\ area(rects[i]) <= SubRectMaxArea
        /\ width(rects[i]) <= SubRectMaxWidth

\* a sub-rectangle at both limits
C7_Witness ==
  \E i \in 1..Len(SubRectsQueued) :
    /\ area(SubRectsQueued[i]) = SubRectMaxArea
    /\ width(SubRectsQueued[i]) = SubRectMaxWidth

\* ceil(a / b)
Ceil(a, b) == (a + b - 1) \div b

\* section 4.5: the tiling of a rectangle, row-major
Tiling(r) ==
  IF area(r) < SubRectMaxArea /\ width(r) < SubRectMaxWidth THEN <<r>>
  ELSE LET sw == Min(width(r), SubRectMaxWidth)
           sh == SubRectMaxArea \div sw
           nx == Ceil(width(r), sw)
           ny == Ceil(height(r), sh)
       IN  [k \in 1..(nx * ny) |->
              LET col == (k - 1) % nx
                  row == (k - 1) \div nx
              IN  Rect(r.tl.x + col * sw, r.tl.y + row * sh,
                       Min(r.tl.x + (col + 1) * sw, r.br.x),
                       Min(r.tl.y + (row + 1) * sh, r.br.y))]

RECURSIVE RegionTiling(_)
RegionTiling(rects) ==
  IF rects = <<>> THEN <<>>
  ELSE Tiling(Head(rects)) \o RegionTiling(Tail(rects))

\* C8: computeNumRects of a region is the number of queueSubRect calls
\* writeRects makes for it: one for a rectangle under both limits, else
\* ceil(w/sw) * ceil(h/sh), the sub-rectangles queued in row-major order.
C8_CountMatches ==
  (HeaderWritten /\ dpc \notin {"copyRects", "solidRects", "splitRects"}) =>
    /\ Len(SubRectsQueued) + Len(pending) = computeNumRects(changed)
    /\ SubRectsQueued \o pending = RegionTiling(changed)

\* the 4096x1024 update: 64 sub-rectangles, all queued
C8_Witness ==
  /\ Finished
  /\ changed = <<setXYWH(0, 0, 4096, 1024)>>
  /\ computeNumRects(changed) = 64
  /\ Len(SubRectsQueued) = 64
  /\ nRects = 64

\* ---- prepareRect: the palette limit and the choice of the role ----

\* the peers of SpecPrep: Tight with and without Tight-JPEG, ZRLE, RRE with
\* Tight for the Indexed role, and the grayscale override; every compression
\* level of the protocol, -1 being "not set"
CompressLevels == -1 .. 9

PrepConns ==
  { [preferred |-> c[1], supported |-> c[2], bpp |-> 32, subsampling |-> c[3],
     compressLevel |-> l] :
      c \in { <<"encodingTight", {"encoderTight", "encoderTightJPEG"}, "subsampleNone">>,
              <<"encodingTight", {"encoderTight"}, "subsampleNone">>,
              <<"encodingZRLE", {"encoderZRLE"}, "subsampleNone">>,
              <<"encodingRRE", {"encoderRRE", "encoderTight", "encoderTightJPEG"},
                "subsampleNone">>,
              <<"encodingTight", {"encoderTight", "encoderTightJPEG"}, "subsampleGray">> },
      l \in CompressLevels }

\* Encoder::maxPaletteSize of an encoder object (an unsigned int set by the
\* encoder's constructor): the values taken for the classes in use, the last
\* one standing for an encoder that sets no limit
PaletteSizes == {1, 16, 127, 256, 2147483647}

\* rect.area() of the rectangles prepared
Areas == {1, 16, 64, 1024, 4096, 65536}

\* the number of distinct colours of a rectangle
ColourCounts == {1, 2, 3, 16, 17, 97, 257}

\* the run counts tried for a rectangle of the given area and colours:
\* every colour starts a run, and no rectangle has more runs than pixels
RunCounts(rectArea, colours) ==
  { r \in {colours, rectArea \div 2, rectArea \div 2 + 1, rectArea} :
      colours <= r /\ r <= rectArea }

\* (a slip: a compression level that is not set counts as level 1)
divisorDefaultOne(compressLevel) ==
  LET d == IF compressLevel = -1 THEN 1 * 8 ELSE compressLevel * 8
  IN IF d < 4 THEN 4 ELSE d

divisor(compressLevel) ==
  LET d == IF compressLevel = -1 THEN 2 * 8 ELSE compressLevel * 8
  IN IF d < 4 THEN 4 ELSE d

\* (the steps in another order: the caps first, then the Tight-JPEG
\* exception, then the floor)
maxColoursCapsFirst(rectArea, compressLevel, fullColour, sizeRLE, sizeIndexed) ==
  LET byArea == rectArea \div divisor(compressLevel)
      cappedRLE == IF byArea > sizeRLE THEN sizeRLE ELSE byArea
      capped == IF cappedRLE > sizeIndexed THEN sizeIndexed ELSE cappedRLE
      jpeg == IF fullColour = "encoderTightJPEG"
              THEN IF compressLevel # -1 /\ compressLevel < 2 THEN 24 ELSE 96
              ELSE capped
  IN IF jpeg < 2 THEN 2 ELSE jpeg

\* maxColours as prepareRect computes it, step by step
maxColours(rectArea, compressLevel, fullColour, sizeRLE, sizeIndexed) ==
  LET byArea == rectArea \div divisor(compressLevel)
      jpeg == IF fullColour = "encoderTightJPEG"
              THEN IF compressLevel # -1 /\ compressLevel < 2 THEN 24 ELSE 96
              ELSE byArea
      floored == IF jpeg < 2 THEN 2 ELSE jpeg
      cappedRLE == IF floored > sizeRLE THEN sizeRLE ELSE floored
  IN IF cappedRLE > sizeIndexed THEN sizeIndexed ELSE cappedRLE

\* useRLE = rleRuns <= (rect.area() * 2)
useRLE(rleRuns, rectArea) == rleRuns <= rectArea * 2

\* the palette analyseRect leaves: the colours of the rectangle, or an empty
\* one (palette->clear()) when they are more than maxColours
paletteSize(colours, limit) == IF colours <= limit THEN colours ELSE 0

InitPrep == Constructed(ThreadCount(0)) /\ cp \in PrepConns

\* EncodeThread::prepareRect on one rectangle
PrepareRect ==
  /\ dpc = "writeRects"
  /\ ~prepared.done
  /\ \E rectArea \in Areas, colours \in ColourCounts, sizeRLE, sizeIndexed \in PaletteSizes :
       /\ colours <= rectArea
       /\ activeEncoders["encoderIndexedRLE"] = activeEncoders["encoderIndexed"]
            => sizeRLE = sizeIndexed
       /\ \E rleRuns \in RunCounts(rectArea, colours) :
            LET limit == maxColours(rectArea, cp.compressLevel,
                                    activeEncoders["encoderFullColour"],
                                    sizeRLE, sizeIndexed)
                size == paletteSize(colours, limit)
            IN prepared' =
                 [done |-> TRUE, area |-> rectArea, colours |-> colours,
                  rleRuns |-> rleRuns,
                  maxPaletteSize |-> [encoderIndexedRLE |-> sizeRLE,
                                      encoderIndexed |-> sizeIndexed],
                  maxColours |-> limit,
                  palette |-> size,
                  type |-> prepareRectType([palette |-> size,
                                            useRLE |-> useRLE(rleRuns, rectArea)])]
  /\ UNCHANGED <<threads, cp, activeEncoders, workQueue, rectCount,
                 encoderQueue, outputQueue, queueMutex, stopRequested, wpc,
                 wentry, dpc, dphase, doutput, nextId, wire, encLog, outLog,
                 prepLog, flushMark, ui, pb, renderedCursor, nRects,
                 changed, pending, queued, rd, wr, stats, copyStats>>

SpecPrep == InitPrep /\ [][WriteUpdate \/ PrepareRect]_vars

\* ---- properties of prepareRect (checked under SpecPrep) ----

JPEGFullColour == activeEncoders["encoderFullColour"] = "encoderTightJPEG"
JPEGColours == IF cp.compressLevel \in {0, 1} THEN 24 ELSE 96
AreaColours ==
  prepared.area \div
    Max(4, 8 * (IF cp.compressLevel = -1 THEN 2 ELSE cp.compressLevel))
SmallestPaletteSize ==
  Min(prepared.maxPaletteSize["encoderIndexed"],
      prepared.maxPaletteSize["encoderIndexedRLE"])

\* C12: for a palette of two or more colours the RLE variant of the role
\* (BitmapRLE for two colours, IndexedRLE for more) is chosen if and only if
\* rleRuns * 2 <= rect.area, and the plain variant (Bitmap, Indexed) otherwise.
C12_RLEIffHalved ==
  (prepared.done /\ prepared.palette >= 2) =>
    prepared.type =
      IF prepared.rleRuns * 2 <= prepared.area
      THEN (IF prepared.palette = 2 THEN "encoderBitmapRLE" ELSE "encoderIndexedRLE")
      ELSE (IF prepared.palette = 2 THEN "encoderBitmap" ELSE "encoderIndexed")

\* a rectangle of 16 pixels whose two colours alternate (16 runs) is given
\* the role BitmapRLE
C12_Witness ==
  /\ prepared.done
  /\ prepared.area = 16
  /\ prepared.palette = 2
  /\ prepared.rleRuns = 16
  /\ prepared.type = "encoderBitmapRLE"

\* C13 (as stated): maxColours is rect.area / max(4, 8c), c = 2 for level -1,
\* capped to the maxPaletteSize of the Indexed and IndexedRLE classes, then
\* overridden to 96 (24 for levels 0 and 1) when FullColour is Tight-JPEG,
\* and floored to 2 last, so never below 2.
C13_StatedOrder ==
  prepared.done =>
    /\ prepared.maxColours =
         Max(2, IF JPEGFullColour THEN JPEGColours
                ELSE Min(AreaColours, SmallestPaletteSize))
    /\ prepared.maxColours >= 2

\* C13 (amended): maxColours is rect.area / max(4, 8c), c = 2 for level -1,
\* replaced by 96 (24 for levels 0 and 1) when FullColour is Tight-JPEG,
\* floored to 2, and capped to the maxPaletteSize of the IndexedRLE and of
\* the Indexed class last; it is below 2 only when one of these sizes is.
C13_CapsLast ==
  prepared.done =>
    /\ prepared.maxColours =
         Min(SmallestPaletteSize,
             Max(2, IF JPEGFullColour THEN JPEGColours ELSE AreaColours))
    /\ prepared.maxColours < 2 => SmallestPaletteSize < 2

\* Tight-JPEG for FullColour and an Indexed class of 16 palette entries: the
\* limit is 16, not 96; and a rectangle for which area / divisor decides
C13_Witness ==
  /\ prepared.done
  /\ \/ /\ JPEGFullColour
        /\ SmallestPaletteSize = 16
        /\ prepared.maxColours = 16
     \/ /\ ~JPEGFullColour
        /\ cp.compressLevel = -1
        /\ prepared.area = 1024
        /\ prepared.maxColours = 64

\* C14: the palette limit never exceeds the maxPaletteSize of the class of
\* the Indexed role nor that of the IndexedRLE role, the Tight-JPEG override
\* included, so an entry of role Indexed or IndexedRLE carries a palette no
\* larger than its encoder's maxPaletteSize.
C14_WithinPaletteSize ==
  prepared.done =>
    /\ prepared.maxColours <= prepared.maxPaletteSize["encoderIndexed"]
    /\ prepared.maxColours <= prepared.maxPaletteSize["encoderIndexedRLE"]
    /\ prepared.palette <= prepared.maxColours
    /\ prepared.type \in {"encoderIndexed", "encoderIndexedRLE"}
         => prepared.palette <= prepared.maxPaletteSize[prepared.type]

\* under the Tight-JPEG override a rectangle of 16 colours fills the palette
\* of an encoder of 16 entries, and one of 17 colours is left to FullColour
C14_Witness ==
  /\ prepared.done
  /\ JPEGFullColour
  /\ prepared.maxPaletteSize["encoderIndexedRLE"] = 16
  /\ \/ prepared.type = "encoderIndexedRLE" /\ prepared.palette = 16
     \/ prepared.type = "encoderFullColour" /\ prepared.colours = 17

\* ---- wire codec: MsgReader and MsgWriter ----

\* the number of clipboard formats the peers of SpecWire use
MaxFormats == 3

\* IntParameter maxCutText, at its default of 256*1024
maxCutText == 262144

\* sizeof(data) of readFence
FenceDataSize == 64

\* the least rdr::S32
IntMin == -2147483647 - 1

\* A rdr::U32 off the wire is [high |-> bit 31, low |-> bits 0..30]; the
\* flags of a clipboard message are [formats |-> the bits set among 0..15,
\* action |-> the bits set of clipboardActionMask], the flags of a fence the
\* set of their bits.

\* rdr::S32 slen = len
toS32(u) == IF u.high THEN u.low + IntMin ELSE u.low

\* slen = -slen: the negation of the least S32 overflows, which is undefined;
\* a build wraps it to itself or traps
negateS32(slen) ==
  IF slen = IntMin THEN {[trap |-> FALSE, value |-> IntMin], [trap |-> TRUE, value |-> 0]}
  ELSE {[trap |-> FALSE, value |-> -slen]}

\* for (i = 0; i < 16; i++) if (flags & (1 << i)): the bits visited, in order
RECURSIVE BitsFrom(_, _)
BitsFrom(i, formats) ==
  IF i = 16 THEN <<>>
  ELSE IF i \in formats THEN <<i>> \o BitsFrom(i + 1, formats)
  ELSE BitsFrom(i + 1, formats)

\* what a read has done: bytes consumed after the header, handler calls in
\* order, the exception thrown if any, the buffers deleted
Outcome(pos, calls, raised, freed) ==
  [pos |-> pos, calls |-> calls, raised |-> raised, freed |-> freed]

\* the Provide loop of readExtendedClipboard from the k-th set bit on, reading
\* the records of the inflated stream one after the other
RECURSIVE ProvideLoop(_, _, _, _, _, _)
\* (a slip: the length of a format is not compared with maxCutText)
ProvideLoopUnchecked(bits, k, flags, records, lengths, buffers) ==
  IF k > Len(bits) THEN [flags |-> flags, lengths |-> lengths, buffers |-> buffers]
  ELSE ProvideLoop(bits, k + 1, flags, records,
                   Append(lengths, records[k].length),
                   Append(buffers, records[k].data))

ProvideLoop(bits, k, flags, records, lengths, buffers) ==
  IF k > Len(bits) THEN [flags |-> flags, lengths |-> lengths, buffers |-> buffers]
  ELSE LET r == records[k]
       IN IF r.length > maxCutText
          THEN ProvideLoop(bits, k + 1,
                           [flags EXCEPT !.formats = @ \ {bits[k]}],
                           records, lengths, buffers)
          ELSE ProvideLoop(bits, k + 1, flags, records,
                           Append(lengths, r.length), Append(buffers, r.data))

\* the delete [] loop after the handler returned
deleteBuffers(flags, buffers) ==
  [k \in 1 .. Len(BitsFrom(0, flags.formats)) |-> buffers[k]]

\* (a slip: the four bytes of the flags are not counted)
capsTooShortByFlags(len, num) == len < 4 * num

\* len < (rdr::S32)(4 + 4*num)
capsTooShort(len, num) == len < 4 + 4 * num

\* MsgReader::readExtendedClipboard(len) on the body of msg
readExtendedClipboard(len, msg) ==
  IF len < 4 THEN Outcome(0, <<>>, "Invalid extended clipboard message", <<>>)
  ELSE IF len > maxCutText THEN Outcome(len, <<>>, "", <<>>)
  ELSE
    LET flags == msg.flags
        action == flags.action
        bits == BitsFrom(0, flags.formats)
    IN IF "clipboardCaps" \in action
       THEN IF capsTooShort(len, Len(bits))
            THEN Outcome(4, <<>>, "Invalid extended clipboard message", <<>>)
            ELSE Outcome(4 + 4 * Len(bits),
                         <<[name |-> "clipboardCaps", flags |-> flags,
                            lengths |-> [k \in 1 .. Len(bits) |-> msg.lengths[k]]]>>,
                         "", <<>>)
       ELSE IF action = {"clipboardProvide"}
       THEN LET p == ProvideLoop(bits, 1, flags, msg.records, <<>>, <<>>)
            IN Outcome(len,
                       <<[name |-> "clipboardProvide", flags |-> p.flags,
                          lengths |-> p.lengths, data |-> p.buffers]>>,
                       "", deleteBuffers(p.flags, p.buffers))
       ELSE IF action \in {{"clipboardRequest"}, {"clipboardPeek"}, {"clipboardNotify"}}
       THEN Outcome(4, <<[name |-> CHOOSE a \in action : TRUE, flags |-> flags]>>,
                    "", <<>>)
       ELSE Outcome(4, <<>>, "Invalid extended clipboard action", <<>>)

\* (a slip: a text that is too long is dropped without being skipped)
readCutTextPlainUnskipped(msg) ==
  IF msg.len.low > maxCutText THEN Outcome(0, <<>>, "", <<>>)
  ELSE Outcome(msg.len.low,
               <<[name |-> "cutText", str |-> msg.text, len |-> msg.len.low]>>,
               "", <<>>)

\* (a slip: a text of exactly maxCutText bytes is dropped too)
readCutTextPlainBelow(msg) ==
  IF msg.len.low >= maxCutText THEN Outcome(msg.len.low, <<>>, "", <<>>)
  ELSE Outcome(msg.len.low,
               <<[name |-> "cutText", str |-> msg.text, len |-> msg.len.low]>>,
               "", <<>>)

\* MsgReader::readCutText when the high bit of len is clear
readCutTextPlain(msg) ==
  IF msg.len.low > maxCutText THEN Outcome(msg.len.low, <<>>, "", <<>>)
  ELSE Outcome(msg.len.low,
               <<[name |-> "cutText", str |-> msg.text, len |-> msg.len.low]>>,
               "", <<>>)

\* (a slip: a payload of exactly 64 bytes is dropped too)
readFenceBodyBelow(msg) ==
  IF msg.len >= FenceDataSize THEN Outcome(msg.len, <<>>, "", <<>>)
  ELSE Outcome(msg.len,
               <<[name |-> "fence", flags |-> msg.flags, len |-> msg.len,
                  data |-> msg.data]>>,
               "", <<>>)

\* MsgReader::readFence after its header (3 pad, u32 flags, u8 len)
readFenceBody(msg) ==
  IF msg.len > FenceDataSize THEN Outcome(msg.len, <<>>, "", <<>>)
  ELSE Outcome(msg.len,
               <<[name |-> "fence", flags |-> msg.flags, len |-> msg.len,
                  data |-> msg.data]>>,
               "", <<>>)

\* the reader after a read that consumed hdr bytes of header and did o
Read(msg, hdr, dispatched, o) ==
  [msg |-> msg, hdr |-> hdr, dispatched |-> dispatched, pos |-> o.pos,
   calls |-> o.calls, raised |-> o.raised, freed |-> o.freed]

\* the cut-text messages a peer sends: plain texts up to and beyond
\* maxCutText, and extended clipboard messages of MaxFormats format bits,
\* with every action alone, none, and some together, declaring from 1 to
\* 2^31 bytes (len = 0x80000000); a Caps message carries a length and a
\* Provide message a record per format, of maxCutText bytes or one more
CutTextMsgs ==
  LET FormatBits == <<0, 1, 15, 4>>
      Formats == {FormatBits[i] : i \in 1 .. MaxFormats}
      ActionFields ==
        { {}, {"clipboardCaps"}, {"clipboardProvide"}, {"clipboardRequest"},
          {"clipboardPeek"}, {"clipboardNotify"},
          {"clipboardCaps", "clipboardProvide"},
          {"clipboardRequest", "clipboardPeek"} }
      Negated(L) == [high |-> TRUE, low |-> (2147483647 - L) + 1]
      ExtendedLens ==
        {Negated(L) : L \in {1, 3, 4, 8, 12, 16, 262144, 262145, 2147483647}}
          \cup {[high |-> TRUE, low |-> 0]}
      ClipboardFlags ==
        {[formats |-> f, action |-> a] : f \in SUBSET Formats, a \in ActionFields}
      PlainCutTexts ==
        {[kind |-> "cutText", len |-> [high |-> FALSE, low |-> n], text |-> "text"] :
           n \in {0, 5, 262144, 262145}}
      ExtendedCutTexts ==
        {[kind |-> "cutText", len |-> l, flags |-> f,
          lengths |-> [k \in 1 .. Len(BitsFrom(0, f.formats)) |->
                         1000 + BitsFrom(0, f.formats)[k]]] :
           l \in ExtendedLens,
           f \in {g \in ClipboardFlags : g.action # {"clipboardProvide"}}}
      ProvideCutTexts ==
        UNION {
          {[kind |-> "cutText", len |-> l,
            flags |-> [formats |-> f, action |-> {"clipboardProvide"}],
            records |-> [k \in 1 .. Len(BitsFrom(0, f)) |->
                           [length |-> n[k],
                            data |-> [format |-> BitsFrom(0, f)[k],
                                      length |-> n[k]]]]] :
             l \in ExtendedLens,
             n \in [1 .. Len(BitsFrom(0, f)) -> {262144, 262145}]} :
          f \in SUBSET Formats }
  IN PlainCutTexts \cup ExtendedCutTexts \cup ProvideCutTexts

\* the bits of the flags of a fence: two of the supported ones and one that
\* is not
FenceBits == {"fenceFlagRequest", "fenceFlagBlockBefore", "bit3"}
FenceMsgs ==
  {[kind |-> "fence", flags |-> f, len |-> n, data |-> "payload"] :
     f \in SUBSET FenceBits, n \in {0, 4, 64, 65, 255}}

\* MsgReader::readCutText on the message msg: the states it can leave the
\* reader in
readCutTextOn(msg) ==
  IF msg.len.high
  THEN { IF slen.trap
         THEN Read(msg, 7, <<>>, Outcome(0, <<>>, "trap", <<>>))
         ELSE Read(msg, 7, <<slen.value>>, readExtendedClipboard(slen.value, msg)) :
         slen \in negateS32(toS32(msg.len)) }
  ELSE { Read(msg, 7, <<>>, readCutTextPlain(msg)) }

\* MsgReader::readCutText, on the first message of the connection
readCutText ==
  /\ rd.msg.kind = "none"
  /\ \E msg \in CutTextMsgs : rd' \in readCutTextOn(msg)
  /\ UNCHANGED <<threads, cp, activeEncoders, workQueue, rectCount,
                 encoderQueue, outputQueue, queueMutex, stopRequested, wpc,
                 wentry, dpc, dphase, doutput, nextId, wire, encLog, outLog,
                 prepLog, flushMark, ui, pb, renderedCursor, nRects,
                 changed, pending, queued, prepared, wr, stats, copyStats>>

\* MsgReader::readFence, on the first message of the connection
readFence ==
  /\ rd.msg.kind = "none"
  /\ \E msg \in FenceMsgs : rd' = Read(msg, 8, <<>>, readFenceBody(msg))
  /\ UNCHANGED <<threads, cp, activeEncoders, workQueue, rectCount,
                 encoderQueue, outputQueue, queueMutex, stopRequested, wpc,
                 wentry, dpc, dphase, doutput, nextId, wire, encLog, outLog,
                 prepLog, flushMark, ui, pb, renderedCursor, nRects,
                 changed, pending, queued, prepared, wr, stats, copyStats>>

\* fenceFlagsSupported of rfb/fenceTypes.h
fenceFlagsSupported ==
  {"fenceFlagBlockBefore", "fenceFlagBlockAfter", "fenceFlagSyncNext",
   "fenceFlagRequest"}

\* (a slip: the flags are not looked at)
writeFenceAnyFlags(w, conn, flags, len, data) ==
  LET args == [op |-> "writeFence", flags |-> flags, len |-> len, data |-> data]
      failed(what) == [w EXCEPT !.called = TRUE, !.args = args, !.raised = what]
  IN IF ~conn.supportsFence THEN failed("Peer does not support fences")
     ELSE IF len > 64 THEN failed("Too large fence payload")
     ELSE [w EXCEPT !.called = TRUE, !.args = args, !.flushes = @ + 1,
             !.os = @ \o
               << [op |-> "writeU8",
                   v |-> IF w.client THEN "msgTypeClientFence" ELSE "msgTypeServerFence"],
                  [op |-> "pad", n |-> 3],
                  [op |-> "writeU32", v |-> flags],
                  [op |-> "writeU8", v |-> len % 256],
                  [op |-> "writeBytes", data |-> data, n |-> len] >>]

\* MsgWriter::writeFence on the writer w of a connection with parameters conn
writeFenceOn(w, conn, flags, len, data) ==
  LET args == [op |-> "writeFence", flags |-> flags, len |-> len, data |-> data]
      failed(what) == [w EXCEPT !.called = TRUE, !.args = args, !.raised = what]
  IN IF ~conn.supportsFence THEN failed("Peer does not support fences")
     ELSE IF len > 64 THEN failed("Too large fence payload")
     ELSE IF flags \ fenceFlagsSupported # {} THEN failed("Unknown fence flags")
     ELSE [w EXCEPT !.called = TRUE, !.args = args, !.flushes = @ + 1,
             !.os = @ \o
               << [op |-> "writeU8",
                   v |-> IF w.client THEN "msgTypeClientFence" ELSE "msgTypeServerFence"],
                  [op |-> "pad", n |-> 3],
                  [op |-> "writeU32", v |-> flags],
                  [op |-> "writeU8", v |-> len % 256],
                  [op |-> "writeBytes", data |-> data, n |-> len] >>]

writeFence ==
  /\ ~wr.called
  /\ \E flags \in SUBSET FenceBits, len \in {0, 4, 64, 65, 256} :
       wr' = writeFenceOn(wr, cp, flags, len, "payload")
  /\ UNCHANGED <<threads, cp, activeEncoders, workQueue, rectCount,
                 encoderQueue, outputQueue, queueMutex, stopRequested, wpc,
                 wentry, dpc, dphase, doutput, nextId, wire, encLog, outLog,
                 prepLog, flushMark, ui, pb, renderedCursor, nRects,
                 changed, pending, queued, prepared, rd, stats, copyStats>>

\* the peers of SpecWire
WireConns == [supportsFence : BOOLEAN, supportsExtendedClipboard : BOOLEAN]

InitWire ==
  /\ EncodeManagerConstructed(ThreadCount(0))
  /\ rd = NewReader
  /\ wr \in {NewWriter(client) : client \in BOOLEAN}
  /\ cp \in WireConns

SpecWire == InitWire /\ [][readCutText \/ readFence \/ writeFence]_vars

\* ---- properties of the wire codec (checked under SpecWire) ----

\* the reader was given an extended clipboard message of declared length L
Dispatched(L) == rd.msg.kind = "cutText" /\ rd.dispatched = <<L>>
Dropped == rd.calls = <<>> /\ rd.raised = "" /\ rd.freed = <<>>

\* C15: on every oversized read path (cut text longer than maxCutText,
\* extended clipboard message longer than maxCutText, fence payload longer
\* than 64) the reader skips exactly the declared body length, calls no
\* handler and raises no error, so the next message starts where it should.
C15_OversizedSkipped ==
  /\ (rd.msg.kind = "cutText" /\ ~rd.msg.len.high /\ rd.msg.len.low > maxCutText)
       => (Dropped /\ rd.hdr = 7 /\ rd.pos = rd.msg.len.low)
  /\ (Len(rd.dispatched) = 1 /\ rd.dispatched[1] > maxCutText)
       => (Dropped /\ rd.hdr = 7 /\ rd.pos = rd.dispatched[1])
  /\ (rd.msg.kind = "fence" /\ rd.msg.len > 64)
       => (Dropped /\ rd.hdr = 8 /\ rd.pos = rd.msg.len)

\* an extended clipboard message of maxCutText + 1 bytes was skipped whole
C15_Witness ==
  /\ Dispatched(262145)
  /\ rd.msg.len = [high |-> TRUE, low |-> 2147221503]
  /\ rd.pos = 262145
  /\ rd.calls = <<>>
  /\ rd.raised = ""

\* C16: for every u32 len with the high bit set readCutText dispatches to
\* readExtendedClipboard with a positive length L = 2^32 - len (that is,
\* L - 1 = (2^31 - 1) - the low 31 bits of len), and never delivers a plain
\* cutText for such a message.
C16_NegatedLength ==
  (rd.msg.kind = "cutText" /\ rd.msg.len.high) =>
    /\ Len(rd.dispatched) = 1
    /\ rd.dispatched[1] > 0
    /\ rd.dispatched[1] - 1 = 2147483647 - rd.msg.len.low
    /\ \A i \in 1 .. Len(rd.calls) : rd.calls[i].name # "cutText"

\* len = 0x80000000: the reader was given the least S32 as the length, or
\* the negation trapped
C16_Witness ==
  /\ rd.msg.kind = "cutText"
  /\ rd.msg.len = [high |-> TRUE, low |-> 0]
  /\ rd.dispatched = <<IntMin>> \/ rd.raised = "trap"

\* C17: readExtendedClipboard(L) with L < 4 fails with a protocol-invalid
\* error before reading any byte of the body and without calling a handler;
\* a Caps message whose L is below 4 + 4 * (number of format bits set) fails
\* likewise without delivering clipboardCaps.
C17_TooShortFails ==
  \A i \in 1 .. Len(rd.dispatched) :
    LET L == rd.dispatched[i]
    IN /\ L < 4 =>
            /\ rd.raised = "Invalid extended clipboard message"
            /\ rd.pos = 0
            /\ rd.calls = <<>>
       /\ (/\ L <= maxCutText
           /\ "clipboardCaps" \in rd.msg.flags.action
           /\ L < 4 + 4 * Cardinality(rd.msg.flags.formats)) =>
            /\ rd.raised = "Invalid extended clipboard message"
            /\ rd.calls = <<>>

\* a Caps message of two formats declaring 8 bytes: the flags were read and
\* the message refused
C17_Witness ==
  /\ Dispatched(8)
  /\ rd.msg.flags.action = {"clipboardCaps"}
  /\ Cardinality(rd.msg.flags.formats) = 2
  /\ rd.pos = 4
  /\ rd.raised = "Invalid extended clipboard message"
  /\ rd.calls = <<>>

\* C18: readExtendedClipboard calls a handler only when the action field has
\* exactly one bit set, one of Caps, Provide, Request, Peek, Notify, and then
\* the matching handler; every other action value, zero and combinations of
\* several action bits included, fails with protocol-invalid and calls none.
C18_ExactlyOneAction ==
  \A i \in 1 .. Len(rd.dispatched) :
    LET L == rd.dispatched[i]
        action == rd.msg.flags.action
    IN (4 <= L /\ L <= maxCutText) =>
         /\ rd.calls # <<>> =>
              /\ Cardinality(action) = 1
              /\ Len(rd.calls) = 1
              /\ action = {rd.calls[1].name}
         /\ Cardinality(action) # 1 =>
              /\ rd.raised # ""
              /\ rd.calls = <<>>

\* flags with the Caps and the Provide bit: clipboardCaps was called
C18_Witness ==
  /\ Dispatched(8)
  /\ rd.msg.flags.action = {"clipboardCaps", "clipboardProvide"}
  /\ Len(rd.calls) = 1
  /\ rd.calls[1].name = "clipboardCaps"
  /\ rd.raised = ""

\* the records of a Provide message that are within maxCutText, in the order sent
Retained == SelectSeq(rd.msg.records, LAMBDA r : r.length <= maxCutText)

\* C19: reading a Provide message, each format whose inner length exceeds
\* maxCutText has its bit cleared from the delivered flags and its data
\* skipped, parsing goes on with the formats after it, and clipboardProvide
\* is delivered with one (length, buffer) pair per bit still set, in
\* ascending bit order, each length within maxCutText and the bytes those
\* sent; exactly those buffers are freed afterwards.
C19_ProvideDelivered ==
  \A i \in 1 .. Len(rd.dispatched) :
    LET L == rd.dispatched[i]
    IN (4 <= L /\ L <= maxCutText /\ rd.msg.flags.action = {"clipboardProvide"}) =>
         /\ rd.raised = ""
         /\ Len(rd.calls) = 1
         /\ LET call == rd.calls[1]
                kept == Retained
            IN /\ call.name = "clipboardProvide"
               /\ call.flags.action = {"clipboardProvide"}
               /\ call.flags.formats = {kept[k].data.format : k \in 1 .. Len(kept)}
               /\ Len(call.lengths) = Cardinality(call.flags.formats)
               /\ Len(call.data) = Cardinality(call.flags.formats)
               /\ \A k \in 1 .. Len(kept) :
                    /\ call.lengths[k] = kept[k].length
                    /\ call.lengths[k] <= maxCutText
                    /\ call.data[k] = kept[k].data
               /\ \A j, k \in 1 .. Len(call.data) :
                    j < k => call.data[j].format < call.data[k].format
               /\ rd.freed = call.data

\* three formats, the second too long: the first and the third delivered
C19_Witness ==
  /\ Dispatched(262144)
  /\ rd.msg.flags = [formats |-> {0, 1, 15}, action |-> {"clipboardProvide"}]
  /\ rd.msg.records[2].length = 262145
  /\ Len(rd.calls) = 1
  /\ rd.calls[1].flags.formats = {0, 15}
  /\ rd.calls[1].lengths = <<262144, 262144>>
  /\ Len(rd.freed) = 2

\* C20: writeFence fails when the peer does not support fences, when
\* len > 64, or when flags has a bit outside the supported set, and then no
\* byte is written and nothing flushed; otherwise it writes the type, 3 pad
\* bytes, u32 flags, u8 len and len payload bytes, and flushes once.
C20_FenceWritten ==
  wr.called =>
    IF \/ ~cp.supportsFence
       \/ wr.args.len > 64
       \/ ~(wr.args.flags \subseteq fenceFlagsSupported)
    THEN wr.raised # "" /\ wr.os = <<>> /\ wr.flushes = 0
    ELSE /\ wr.raised = ""
         /\ wr.flushes = 1
         /\ Len(wr.os) = 5
         /\ wr.os[1].op = "writeU8"
         /\ wr.os[1].v = IF wr.client THEN "msgTypeClientFence" ELSE "msgTypeServerFence"
         /\ wr.os[2] = [op |-> "pad", n |-> 3]
         /\ wr.os[3] = [op |-> "writeU32", v |-> wr.args.flags]
         /\ wr.os[4] = [op |-> "writeU8", v |-> wr.args.len]
         /\ wr.os[5] = [op |-> "writeBytes", data |-> wr.args.data, n |-> wr.args.len]

\* a fence of a supported length with a flag outside the supported set,
\* to a peer that supports fences: refused, nothing written
C20_Witness ==
  /\ wr.called
  /\ cp.supportsFence
  /\ wr.args.len = 64
  /\ "bit3" \in wr.args.flags
  /\ wr.raised = "Unknown fence flags"
  /\ wr.os = <<>>
  /\ wr.flushes = 0

\* ---- wire codec: the other writers, and reading back what was written ----

\* startMsg(client ? msgTypeClientCutText : msgTypeServerCutText); os->pad(3)
CutTextStart(w) ==
  << [op |-> "writeU8",
      v |-> IF w.client THEN "msgTypeClientCutText" ELSE "msgTypeServerCutText"],
     [op |-> "pad", n |-> 3] >>

\* MsgWriter::writeCutText
writeCutText ==
  /\ ~wr.called
  /\ \E len \in {0, 5, 262144, 262145} :
       wr' = [wr EXCEPT !.called = TRUE,
                        !.args = [op |-> "writeCutText", str |-> "text", len |-> len],
                        !.flushes = @ + 1,
                        !.os = @ \o CutTextStart(wr) \o
                          << [op |-> "writeU32", v |-> len],
                             [op |-> "writeBytes", data |-> "text", n |-> len] >>]
  /\ UNCHANGED <<threads, cp, activeEncoders, workQueue, rectCount,
                 encoderQueue, outputQueue, queueMutex, stopRequested, wpc,
                 wentry, dpc, dphase, doutput, nextId, wire, encLog, outLog,
                 prepLog, flushMark, ui, pb, renderedCursor, nRects,
                 changed, pending, queued, prepared, rd, stats, copyStats>>

\* MsgWriter::writeClipboardCaps
writeClipboardCaps ==
  /\ ~wr.called
  /\ \E formats \in SUBSET {0, 1, 15} :
       LET caps == [formats |-> formats, action |-> {}]
           bits == BitsFrom(0, formats)
           lengths == [k \in 1 .. Len(bits) |-> 1000 + bits[k]]
           args == [op |-> "writeClipboardCaps", flags |-> caps, lengths |-> lengths]
       IN wr' =
            IF ~cp.supportsExtendedClipboard
            THEN [wr EXCEPT !.called = TRUE, !.args = args,
                            !.raised = "Peer does not support extended clipboard"]
            ELSE [wr EXCEPT !.called = TRUE, !.args = args, !.flushes = @ + 1,
                   !.os = @ \o CutTextStart(wr) \o
                     << [op |-> "writeS32", v |-> -(4 + 4 * Len(bits))],
                        [op |-> "writeU32",
                         v |-> [caps EXCEPT !.action = @ \cup {"clipboardCaps"}]] >> \o
                     [k \in 1 .. Len(bits) |-> [op |-> "writeU32", v |-> lengths[k]]]]
  /\ UNCHANGED <<threads, cp, activeEncoders, workQueue, rectCount,
                 encoderQueue, outputQueue, queueMutex, stopRequested, wpc,
                 wentry, dpc, dphase, doutput, nextId, wire, encLog, outLog,
                 prepLog, flushMark, ui, pb, renderedCursor, nRects,
                 changed, pending, queued, prepared, rd, stats, copyStats>>

\* MsgWriter::writeClipboardRequest
writeClipboardRequest ==
  /\ ~wr.called
  /\ \E formats \in SUBSET {0, 1, 15} :
       LET flags == [formats |-> formats, action |-> {}]
           args == [op |-> "writeClipboardRequest", flags |-> flags]
       IN wr' =
            IF ~cp.supportsExtendedClipboard
            THEN [wr EXCEPT !.called = TRUE, !.args = args,
                            !.raised = "Peer does not support extended clipboard"]
            ELSE IF "clipboardRequest" \notin cp.clipboardFlags
            THEN [wr EXCEPT !.called = TRUE, !.args = args,
                            !.raised = "Peer does not support clipboard \"request\" action"]
            ELSE [wr EXCEPT !.called = TRUE, !.args = args, !.flushes = @ + 1,
                   !.os = @ \o CutTextStart(wr) \o
                     << [op |-> "writeS32", v |-> -4],
                        [op |-> "writeU32",
                         v |-> [flags EXCEPT !.action = @ \cup {"clipboardRequest"}]] >>]
  /\ UNCHANGED <<threads, cp, activeEncoders, workQueue, rectCount,
                 encoderQueue, outputQueue, queueMutex, stopRequested, wpc,
                 wentry, dpc, dphase, doutput, nextId, wire, encLog, outLog,
                 prepLog, flushMark, ui, pb, renderedCursor, nRects,
                 changed, pending, queued, prepared, rd, stats, copyStats>>

\* (a slip: the peer's clipboard flags are not consulted)
writeClipboardPeekUnchecked ==
  /\ ~wr.called
  /\ \E formats \in SUBSET {0, 1, 15} :
       LET flags == [formats |-> formats, action |-> {}]
           args == [op |-> "writeClipboardPeek", flags |-> flags]
       IN wr' =
            IF ~cp.supportsExtendedClipboard
            THEN [wr EXCEPT !.called = TRUE, !.args = args,
                            !.raised = "Peer does not support extended clipboard"]
            ELSE [wr EXCEPT !.called = TRUE, !.args = args, !.flushes = @ + 1,
                   !.os = @ \o CutTextStart(wr) \o
                     << [op |-> "writeS32", v |-> -4],
                        [op |-> "writeU32",
                         v |-> [flags EXCEPT !.action = @ \cup {"clipboardPeek"}]] >>]
  /\ UNCHANGED <<threads, cp, activeEncoders, workQueue, rectCount,
                 encoderQueue, outputQueue, queueMutex, stopRequested, wpc,
                 wentry, dpc, dphase, doutput, nextId, wire, encLog, outLog,
                 prepLog, flushMark, ui, pb, renderedCursor, nRects,
                 changed, pending, queued, prepared, rd, stats, copyStats>>

\* MsgWriter::writeClipboardPeek
writeClipboardPeek ==
  /\ ~wr.called
  /\ \E formats \in SUBSET {0, 1, 15} :
       LET flags == [formats |-> formats, action |-> {}]
           args == [op |-> "writeClipboardPeek", flags |-> flags]
       IN wr' =
            IF ~cp.supportsExtendedClipboard
            THEN [wr EXCEPT !.called = TRUE, !.args = args,
                            !.raised = "Peer does not support extended clipboard"]
            ELSE IF "clipboardPeek" \notin cp.clipboardFlags
            THEN [wr EXCEPT !.called = TRUE, !.args = args,
                            !.raised = "Peer does not support clipboard \"peek\" action"]
            ELSE [wr EXCEPT !.called = TRUE, !.args = args, !.flushes = @ + 1,
                   !.os = @ \o CutTextStart(wr) \o
                     << [op |-> "writeS32", v |-> -4],
                        [op |-> "writeU32",
                         v |-> [flags EXCEPT !.action = @ \cup {"clipboardPeek"}]] >>]
  /\ UNCHANGED <<threads, cp, activeEncoders, workQueue, rectCount,
                 encoderQueue, outputQueue, queueMutex, stopRequested, wpc,
                 wentry, dpc, dphase, doutput, nextId, wire, encLog, outLog,
                 prepLog, flushMark, ui, pb, renderedCursor, nRects,
                 changed, pending, queued, prepared, rd, stats, copyStats>>

\* MsgWriter::writeClipboardNotify
writeClipboardNotify ==
  /\ ~wr.called
  /\ \E formats \in SUBSET {0, 1, 15} :
       LET flags == [formats |-> formats, action |-> {}]
           args == [op |-> "writeClipboardNotify", flags |-> flags]
       IN wr' =
            IF ~cp.supportsExtendedClipboard
            THEN [wr EXCEPT !.called = TRUE, !.args = args,
                            !.raised = "Peer does not support extended clipboard"]
            ELSE IF "clipboardNotify" \notin cp.clipboardFlags
            THEN [wr EXCEPT !.called = TRUE, !.args = args,
                            !.raised = "Peer does not support clipboard \"notify\" action"]
            ELSE [wr EXCEPT !.called = TRUE, !.args = args, !.flushes = @ + 1,
                   !.os = @ \o CutTextStart(wr) \o
                     << [op |-> "writeS32", v |-> -4],
                        [op |-> "writeU32",
                         v |-> [flags EXCEPT !.action = @ \cup {"clipboardNotify"}]] >>]
  /\ UNCHANGED <<threads, cp, activeEncoders, workQueue, rectCount,
                 encoderQueue, outputQueue, queueMutex, stopRequested, wpc,
                 wentry, dpc, dphase, doutput, nextId, wire, encLog, outLog,
                 prepLog, flushMark, ui, pb, renderedCursor, nRects,
                 changed, pending, queued, prepared, rd, stats, copyStats>>

\* mos.length() after zos.flush(): the deflated records; deflating is taken
\* to leave the bytes as they are, a u32 length and the data per record
RECURSIVE deflatedLength(_)
deflatedLength(records) ==
  IF records = <<>> THEN 0
  ELSE 4 + Head(records).length + deflatedLength(Tail(records))

\* (a slip: the length is one byte short)
provideLengthShort(n) == -(3 + n)

\* os->writeS32(-(4 + mos.length()))
provideLength(n) == -(4 + n)

\* MsgWriter::writeClipboardProvide
writeClipboardProvide ==
  /\ ~wr.called
  /\ \E formats \in SUBSET {0, 1, 15} :
       LET flags == [formats |-> formats, action |-> {}]
           bits == BitsFrom(0, formats)
       IN \E lengths \in [1 .. Len(bits) -> {5, 262136, 262144}] :
            LET data == [k \in 1 .. Len(bits) |->
                           [format |-> bits[k], length |-> lengths[k]]]
                args == [op |-> "writeClipboardProvide", flags |-> flags,
                         lengths |-> lengths, data |-> data]
                mos == [k \in 1 .. Len(bits) |->
                          [length |-> lengths[k], data |-> data[k]]]
            IN wr' =
                 IF ~cp.supportsExtendedClipboard
                 THEN [wr EXCEPT !.called = TRUE, !.args = args,
                            !.raised = "Peer does not support extended clipboard"]
                 ELSE IF "clipboardProvide" \notin cp.clipboardFlags
                 THEN [wr EXCEPT !.called = TRUE, !.args = args,
                            !.raised = "Peer does not support clipboard \"provide\" action"]
                 ELSE [wr EXCEPT !.called = TRUE, !.args = args, !.flushes = @ + 1,
                   !.os = @ \o CutTextStart(wr) \o
                          << [op |-> "writeS32", v |-> provideLength(deflatedLength(mos))],
                             [op |-> "writeU32",
                              v |-> [flags EXCEPT !.action = @ \cup {"clipboardProvide"}]],
                             [op |-> "writeBytes", data |-> mos,
                              n |-> deflatedLength(mos)] >>]
  /\ UNCHANGED <<threads, cp, activeEncoders, workQueue, rectCount,
                 encoderQueue, outputQueue, queueMutex, stopRequested, wpc,
                 wentry, dpc, dphase, doutput, nextId, wire, encLog, outLog,
                 prepLog, flushMark, ui, pb, renderedCursor, nRects,
                 changed, pending, queued, prepared, rd, stats, copyStats>>

\* the message the peer's reader finds on the stream after the type byte:
\* a u32 or s32 written big-endian is read as the u32 of the same four
\* bytes, and the deflated records are inflated to themselves
Written(os) ==
  IF os[1].v \in {"msgTypeClientFence", "msgTypeServerFence"}
  THEN [kind |-> "fence", flags |-> os[3].v, len |-> os[4].v, data |-> os[5].data]
  ELSE LET len == IF os[3].v < 0 THEN [high |-> TRUE, low |-> os[3].v - IntMin]
                  ELSE [high |-> FALSE, low |-> os[3].v]
       IN IF os[3].op = "writeU32"
          THEN [kind |-> "cutText", len |-> len, text |-> os[4].data]
          ELSE IF "clipboardProvide" \in os[4].v.action
          THEN [kind |-> "cutText", len |-> len, flags |-> os[4].v,
                records |-> os[5].data]
          ELSE [kind |-> "cutText", len |-> len, flags |-> os[4].v,
                lengths |-> [k \in 1 .. Len(os) - 4 |-> os[4 + k].v]]

\* the peer reads the message written: the type byte, then readFence or
\* readCutText
ReadBack ==
  /\ wr.called
  /\ wr.raised = ""
  /\ rd.msg.kind = "none"
  /\ LET msg == Written(wr.os)
     IN IF msg.kind = "fence"
        THEN rd' = Read(msg, 8, <<>>, readFenceBody(msg))
        ELSE rd' \in readCutTextOn(msg)
  /\ UNCHANGED <<threads, cp, activeEncoders, workQueue, rectCount,
                 encoderQueue, outputQueue, queueMutex, stopRequested, wpc,
                 wentry, dpc, dphase, doutput, nextId, wire, encLog, outLog,
                 prepLog, flushMark, ui, pb, renderedCursor, nRects,
                 changed, pending, queued, prepared, wr, stats, copyStats>>

\* the two ends of a connection: a writer of either side, the peer's reader,
\* and the peer's capabilities as the writer knows them
InitTrip ==
  /\ EncodeManagerConstructed(ThreadCount(0))
  /\ rd = NewReader
  /\ wr \in {NewWriter(client) : client \in BOOLEAN}
  /\ cp \in [supportsFence : BOOLEAN, supportsExtendedClipboard : BOOLEAN,
              clipboardFlags :
                LET all == {"clipboardCaps", "clipboardRequest", "clipboardPeek",
                            "clipboardNotify", "clipboardProvide"}
                IN {all, {}} \cup {all \ {a} : a \in all}]

SpecTrip ==
  InitTrip /\ [][writeFence \/ writeCutText \/ writeClipboardCaps
                   \/ writeClipboardRequest \/ writeClipboardPeek
                   \/ writeClipboardNotify \/ writeClipboardProvide
                   \/ ReadBack]_vars

\* ---- properties of the writers and of the round trips (SpecTrip) ----

\* the action bit a clipboard writer sets
ActionWritten ==
  CASE wr.args.op = "writeClipboardCaps" -> "clipboardCaps"
    [] wr.args.op = "writeClipboardRequest" -> "clipboardRequest"
    [] wr.args.op = "writeClipboardPeek" -> "clipboardPeek"
    [] wr.args.op = "writeClipboardNotify" -> "clipboardNotify"
    [] wr.args.op = "writeClipboardProvide" -> "clipboardProvide"
    [] OTHER -> "none"
Refused == wr.raised # "" /\ wr.os = <<>> /\ wr.flushes = 0

\* the bytes of the message written that follow the type byte
RECURSIVE Bytes(_)
Bytes(writes) ==
  IF writes = <<>> THEN 0
  ELSE (CASE Head(writes).op \in {"pad", "writeBytes"} -> Head(writes).n
          [] Head(writes).op \in {"writeU32", "writeS32"} -> 4
          [] OTHER -> 1)
       + Bytes(Tail(writes))
ReadWhole == rd.hdr + rd.pos = Bytes(Tail(wr.os))
WasRead == wr.called /\ rd.msg.kind # "none"

\* C21 (as stated): each of the five clipboard writers fails, writing no
\* byte, when the peer lacks supportsExtendedClipboard or when the bit of the
\* action written is not set in cp.clipboardFlags().
C21_AllCheckActionBit ==
  (wr.called /\ ActionWritten # "none") =>
    ((~cp.supportsExtendedClipboard \/ ActionWritten \notin cp.clipboardFlags)
       => Refused)

\* C21 (amended): each of the five clipboard writers fails, writing no byte,
\* when the peer lacks supportsExtendedClipboard; writeClipboardRequest,
\* Peek, Notify and Provide fail also when the bit of their action is not
\* set in cp.clipboardFlags(); writeClipboardCaps does not look at
\* cp.clipboardFlags(); in every other case the message is written.
C21_CapsUnchecked ==
  (wr.called /\ ActionWritten # "none") =>
    IF \/ ~cp.supportsExtendedClipboard
       \/ /\ ActionWritten # "clipboardCaps"
          /\ ActionWritten \notin cp.clipboardFlags
    THEN Refused
    ELSE wr.raised = "" /\ wr.os # <<>> /\ wr.flushes = 1

\* writeClipboardPeek to a peer that supports the extended clipboard but
\* has not advertised the Peek action was refused
C21_Witness ==
  /\ wr.called
  /\ cp.supportsExtendedClipboard
  /\ ActionWritten = "clipboardPeek"
  /\ "clipboardPeek" \notin cp.clipboardFlags
  /\ wr.raised = "Peer does not support clipboard \"peek\" action"
  /\ wr.os = <<>>
  /\ wr.flushes = 0

\* C22: for a text of len <= maxCutText, what writeCutText(s, len) writes
\* makes readCutText deliver cutText(s, len), the same bytes and length,
\* consuming exactly the bytes written after the type byte.
C22_CutTextRoundTrip ==
  (WasRead /\ wr.args.op = "writeCutText" /\ wr.args.len <= maxCutText) =>
    /\ rd.calls = <<[name |-> "cutText", str |-> wr.args.str, len |-> wr.args.len]>>
    /\ rd.raised = ""
    /\ ReadWhole

\* a text of exactly maxCutText bytes came through
C22_Witness ==
  /\ WasRead
  /\ wr.args.op = "writeCutText"
  /\ wr.args.len = maxCutText
  /\ Len(rd.calls) = 1
  /\ rd.calls[1].len = maxCutText
  /\ rd.pos = maxCutText

\* C23: for supported flags and a payload of len <= 64, what
\* writeFence(flags, len, data) writes makes readFence deliver
\* fence(flags, len, data), consuming exactly the bytes written after the
\* type byte.
C23_FenceRoundTrip ==
  (WasRead /\ wr.args.op = "writeFence") =>
    /\ wr.args.len <= 64
    /\ wr.args.flags \subseteq fenceFlagsSupported
    /\ rd.calls = <<[name |-> "fence", flags |-> wr.args.flags,
                     len |-> wr.args.len, data |-> wr.args.data]>>
    /\ rd.raised = ""
    /\ ReadWhole

\* a fence of two flags and 64 bytes came through
C23_Witness ==
  /\ WasRead
  /\ wr.args.op = "writeFence"
  /\ wr.args.len = 64
  /\ wr.args.flags = {"fenceFlagRequest", "fenceFlagBlockBefore"}
  /\ Len(rd.calls) = 1
  /\ rd.calls[1].len = 64
  /\ rd.calls[1].flags = wr.args.flags

\* what reading a Provide message delivers when it delivers what was handed
\* to writeClipboardProvide
ProvideDelivered ==
  /\ rd.calls = <<[name |-> "clipboardProvide",
                   flags |-> [formats |-> wr.args.flags.formats,
                              action |-> {"clipboardProvide"}],
                   lengths |-> wr.args.lengths, data |-> wr.args.data]>>
  /\ rd.raised = ""
  /\ ReadWhole

\* C24 (as stated): for buffers whose lengths are all <= maxCutText, the
\* message of writeClipboardProvide(flags, lengths, buffers), read back with
\* deflating and inflating taken as the identity, delivers clipboardProvide
\* with the same flags, lengths and buffers.
C24_ProvideRoundTrip ==
  (/\ WasRead
   /\ wr.args.op = "writeClipboardProvide"
   /\ \A k \in 1 .. Len(wr.args.lengths) : wr.args.lengths[k] <= maxCutText)
    => ProvideDelivered

\* C24 (amended): it does so when also the whole message, the four bytes of
\* the flags and the deflated records, is within maxCutText; a longer
\* message is skipped whole by the reader and nothing is delivered.
C24_ProvideRoundTripWithin ==
  (/\ WasRead
   /\ wr.args.op = "writeClipboardProvide"
   /\ \A k \in 1 .. Len(wr.args.lengths) : wr.args.lengths[k] <= maxCutText)
    => IF 4 + wr.os[5].n <= maxCutText
       THEN ProvideDelivered
       ELSE rd.calls = <<>> /\ rd.raised = "" /\ ReadWhole

\* one format of maxCutText - 8 bytes came through, in a message of
\* maxCutText bytes
C24_Witness ==
  /\ WasRead
  /\ wr.args.op = "writeClipboardProvide"
  /\ wr.args.lengths = <<262136>>
  /\ rd.dispatched = <<maxCutText>>
  /\ Len(rd.calls) = 1
  /\ rd.calls[1].lengths = <<262136>>

(***************************************************************************)
(* The order of the writes of one writeUpdate (SpecUpd).                   *)
(***************************************************************************)
\* C25: the records of one writeUpdate follow its header in the order
\* CopyRects, solid rectangles (with LastRect only), general rectangles,
\* cursor rectangle; the cursor is queued once, unsplit, after every general
\* rectangle has been written; nothing is written after the last flush, so
\* nothing follows the end marker.
C25_WriteOrder ==
  LET stage(e) == IF IsCopyRect(e) THEN 1
                  ELSE IF IsSolidWrite(e) THEN 2
                  ELSE IF IsGeneral(e) THEN 3 ELSE 4
  IN  /\ wire # <<>> => HeaderWritten
      /\ \A i, j \in 1..Len(wire) : i < j => stage(wire[i]) <= stage(wire[j])
      /\ (\E i \in 1..Len(wire) : IsSolidWrite(wire[i])) => cp.supportsLastRect
      /\ \A k \in 1..Len(queued) :
           queued[k].from = "cursor" =>
             /\ k = Len(queued)
             /\ queued[k].rect = renderedCursor.rect
             /\ \A m \in 1..(k - 1) : \E i \in 1..Len(wire) : wire[i].id = m
      /\ HeaderWritten /\ dpc \in {"end", "idle"} => Len(wire) = flushMark[1]

\* a finished update with LastRect whose records are of all four kinds
C25_Witness ==
  /\ Finished
  /\ cp.supportsLastRect
  /\ \E i \in 1..Len(wire) : IsCopyRect(wire[i])
  /\ \E i \in 1..Len(wire) : IsSolidWrite(wire[i])
  /\ \E i \in 1..Len(wire) : IsGeneral(wire[i])
  /\ IsCursor(wire[Len(wire)])

\* a writeUpdate with nothing changed, nothing copied and no cursor
EmptyUpdate ==
  /\ HeaderWritten
  /\ ui.changed = <<>>
  /\ ui.copied = <<>>
  /\ ~renderedCursor.present

\* C26: in an update with changed and copied empty and no cursor the header
\* holds 0 (0xFFFF with LastRect) and the end follows it with nothing
\* written in between: no rectangle is queued, no worker is signalled or
\* leaves its wait, and flush never waits for an output.
C26_EmptyUpdate ==
  EmptyUpdate =>
    /\ nRects = IF cp.supportsLastRect THEN LastRectCount ELSE 0
    /\ wire = <<>>
    /\ queued = <<>> /\ workQueue = <<>> /\ outputQueue = <<>>
    /\ rectCount = 0
    /\ dpc \notin {"flushWait", "flushWoken", "flushWrite"}
    /\ \A w \in DOMAIN wpc : wpc[w] \in {"start", "loop", "waiting"}

\* the empty update has ended, its flush done, the workers waiting
C26_Witness ==
  /\ EmptyUpdate
  /\ Finished
  /\ cp.supportsLastRect
  /\ flushMark = <<0, 1>>
  /\ \A w \in DOMAIN wpc : wpc[w] = "waiting"

(***************************************************************************)
(* CopyRects and the statistics (SpecUpd).                                 *)
(***************************************************************************)
CopyRecords == SelectSeq(wire, IsCopyRect)

\* C27: writeCopyRects writes one CopyRect record for each rectangle of
\* ui.copied, its source being the rectangle's top-left corner minus
\* copy_delta, rows from the top iff copy_delta.y <= 0 and, within a row,
\* from the left iff copy_delta.x <= 0; no copied rectangle is queued for the
\* workers; copyStats has counted the records and their area.
C27_CopyRects ==
  HeaderWritten /\ dpc # "copyRects" =>
    /\ Len(CopyRecords) = Len(ui.copied)
    /\ \A k \in 1..Len(ui.copied) :
         Cardinality({i \in 1..Len(CopyRecords) :
                        CopyRecords[i].rect = ui.copied[k]}) = 1
    /\ \A i \in 1..Len(CopyRecords) :
         /\ CopyRecords[i].src.x = CopyRecords[i].rect.tl.x - ui.copy_delta.x
         /\ CopyRecords[i].src.y = CopyRecords[i].rect.tl.y - ui.copy_delta.y
         /\ \A k \in 1..Len(queued) : queued[k].rect # CopyRecords[i].rect
    /\ \A i, j \in 1..Len(CopyRecords) :
         i < j =>
           LET a == CopyRecords[i].rect.tl
               b == CopyRecords[j].rect.tl
           IN  IF a.y # b.y THEN (ui.copy_delta.y <= 0) <=> (a.y < b.y)
               ELSE (ui.copy_delta.x <= 0) <=> (a.x < b.x)
    /\ dpc \in {"solidRects", "splitRects"} =>
         workQueue = <<>> /\ queued = <<>> /\ rectCount = 0
    /\ copyStats = [rects |-> Len(ui.copied), pixels |-> SumArea(ui.copied)]

\* three rectangles in two rows copied upwards (copy_delta.y > 0): the lower
\* row is written first
C27_Witness ==
  /\ Finished
  /\ ui.copy_delta.y > 0
  /\ Len(CopyRecords) = 3
  /\ CopyRecords[1].rect.tl.y > CopyRecords[2].rect.tl.y
  /\ CopyRecords[2].rect.tl.x < CopyRecords[3].rect.tl.x
  /\ copyStats = [rects |-> 3, pixels |-> 2100]
  /\ queued # <<>>

\* the statistics of the (class, role) pairs, summed
StatsTotal(field) ==
  LET RECURSIVE sum(_)
      sum(pairs) ==
        IF pairs = {} THEN 0
        ELSE LET p == CHOOSE q \in pairs : TRUE
             IN  (IF field = "rects" THEN stats[p[1]][p[2]].rects
                  ELSE stats[p[1]][p[2]].pixels) + sum(pairs \ {p})
  IN  sum(EncoderClass \X EncoderType)

\* the rectangles written between startRect and endRect
Started == SelectSeq(wire, LAMBDA e : ~IsCopyRect(e))

UniformRects ==
  SelectSeq(ui.changed, LAMBDA r : analyseRect(r, pb).palette = 1)

\* C29: with LastRect, a changed rectangle of one colour is written as one
\* solid rectangle, itself, whatever its area: no other solid rectangle lies
\* in it, the working region keeps nothing of it and no part of it is queued
\* for the workers.
C29_UniformIsOneSolid ==
  HeaderWritten /\ cp.supportsLastRect
    /\ dpc \notin {"copyRects", "solidRects"} =>
      \A k \in 1..Len(UniformRects) :
        LET r == UniformRects[k] IN
          /\ Cardinality({i \in 1..Len(wire) :
                            IsSolidWrite(wire[i]) /\ wire[i].rect = r}) = 1
          /\ \A i \in 1..Len(wire) :
               IsSolidWrite(wire[i]) /\ overlaps(wire[i].rect, r) =>
                 wire[i].rect = r
          /\ \A i \in 1..Len(changed) : ~overlaps(changed[i], r)
          /\ \A i \in 1..Len(pending) : ~overlaps(pending[i], r)
          /\ \A i \in 1..Len(queued) :
               queued[i].from = "writeRects" => ~overlaps(queued[i].rect, r)

\* a rectangle of 30 pixels of one colour, far under SolidBlockMinArea, went
\* out as one solid rectangle and nothing else was written
C29_Witness ==
  /\ Finished
  /\ cp.supportsLastRect
  /\ ~renderedCursor.present
  /\ ui.copied = <<>>
  /\ UniformRects = <<setXYWH(20, 6, 10, 3)>>
  /\ wire = <<[id |-> 0, type |-> "encoderSolid", rect |-> setXYWH(20, 6, 10, 3)]>>
  /\ queued = <<>>

(***************************************************************************)
(* The queue mutex (Spec).                                                 *)
(***************************************************************************)
\* a step that writes one of the objects the mutex is for
SharedChanged ==
  \/ workQueue' # workQueue
  \/ encoderQueue' # encoderQueue
  \/ outputQueue' # outputQueue
  \/ rectCount' # rectCount
  \/ stopRequested' # stopRequested

\* the thread taking the step holds the mutex while it takes it: it locks a
\* free mutex within the step, or it is the holder
HolderActs ==
  \/ queueMutex = "free"
  \/ queueMutex = "driver" /\ dpc' # dpc
  \/ queueMutex \in Threads /\ wpc'[queueMutex] # wpc[queueMutex]

\* C30 (as stated): the work queue, the encoder queues, the output queue,
\* rectCount and the stopRequested flags change only in steps of a thread
\* that holds the queue mutex.
C30_AllUnderMutex == [][SharedChanged => HolderActs]_vars

\* C30: the queues and the stopRequested flags change only in steps of a
\* thread that holds the queue mutex, and the heads of the loops of flush
\* and worker read them holding it; rectCount is changed by the driver
\* only, under the mutex in queueSubRect but after the unlock in flush; at
\* the entry of writeRects the driver does not hold the mutex either.
C30_QueuesUnderMutex ==
  /\ [](/\ dpc = "flushLoop" => queueMutex = "driver"
        /\ \A w \in Threads : wpc[w] = "loop" => queueMutex = w
        /\ dpc \in {"idle", "writeRects", "flushWrite"} => queueMutex # "driver")
  /\ [][/\ SharedChanged /\ dpc # "flushWrite" => HolderActs
        /\ dpc = "flushWrite" /\ SharedChanged =>
             \/ dpc' # dpc /\ rectCount' = rectCount - 1
             \/ dpc' = dpc /\ rectCount' = rectCount /\ HolderActs
        /\ rectCount' # rectCount =>
             dpc \in {"writeRects", "cursor", "flushWrite"}]_vars

\* flush is about to decrement rectCount while a worker holds the mutex
C30_Witness ==
  /\ dpc = "flushWrite"
  /\ rectCount > 0
  /\ queueMutex \in Threads

(***************************************************************************)
(* Work done outside the mutex (Spec).                                     *)
(***************************************************************************)
\* C31: a worker analysing a rectangle (prepareRect) or encoding one
\* (encodeRect, plain or ordered) does not hold the queue mutex, nor does
\* the driver while flush writes a rectangle to the connection; and the
\* connection is written by that step of flush only, never by a worker.
C31_WorkOutsideMutex ==
  /\ [](/\ \A w \in Threads :
             wpc[w] \in {"prepare", "encode", "encodeOrdered"} => queueMutex # w
        /\ dpc = "flushWrite" => queueMutex # "driver")
  /\ [][wire' # wire =>
          /\ dpc = "flushWrite" /\ dpc' = "flushLock"
          /\ wpc' = wpc
          /\ wire' = Append(wire, doutput)]_vars

\* the driver writes a rectangle while a worker encodes the next one, the
\* mutex being free
C31_Witness ==
  /\ dpc = "flushWrite"
  /\ queueMutex = "free"
  /\ \E w \in Threads : wpc[w] \in {"encode", "encodeOrdered"}

(***************************************************************************)
(* Progress (SpecFair): the scheduler under fair scheduling of the driver  *)
(* thread and of every worker thread.                                      *)
(***************************************************************************)
\* the steps of the driver thread and of the worker thread w
Driver ==
  \/ WriteUpdate \/ queueSubRect \/ WriteRectsFlush \/ FlushLock \/ FlushLoop
  \/ FlushWake \/ FlushWrite \/ FlushReturn \/ CursorRect \/ NoCursor
  \/ UpdateEnd \/ Destroy \/ Stop \/ Join
Worker(w) ==
  /\ w \in Threads
  /\ \/ WorkerStart(w) \/ WorkerLoop(w) \/ WorkerWake(w) \/ WorkerPrepare(w)
     \/ WorkerEncode(w) \/ WorkerOutput(w) \/ WorkerQueueOrdered(w)
     \/ WorkerEncodeOrdered(w) \/ WorkerPopOrdered(w)

\* a thread that can run gets to run, and encodeRect returns
SpecFair ==
  /\ Spec
  /\ WF_vars(Driver)
  /\ \A w \in {ThreadNames[i] : i \in 1..MaxThreads} : WF_vars(Worker(w))

C33_FlushReturns ==
  /\ (dpc \in {"flushLock", "flushLoop", "flushWait", "flushWoken",
               "flushWrite"}) ~> (dpc = "flushRet")
  /\ \A id \in 1..MaxRects :
       (nextId > id) ~> (/\ \E i \in 1..Len(wire) : wire[i].id = id
                         /\ \E i \in 1..Len(outLog) : outLog[i] = id)

\* flush returns having written two rectangles that both went through the
\* encoder queue of one class, the second left there by a worker that did
\* not own the queue
C33_Witness ==
  /\ dpc = "flushRet"
  /\ Len(wire) - flushMark[1] = 2
  /\ \E k \in EncoderClass :
       /\ Len(prepLog[k]) = 2
       /\ Len(encLog[k]) = 2


(***************************************************************************)
(* The state flush leaves behind (Spec).                                   *)
(***************************************************************************)
\* nothing is queued and no worker has a rectangle in hand
Quiet ==
  /\ workQueue = <<>>
  /\ \A k \in EncoderClass : encoderQueue[k] = <<>>
  /\ outputQueue = <<>>
  /\ \A w \in Threads :
       wpc[w] \notin {"prepare", "encode", "lockOutput", "lockOrdered",
                      "encodeOrdered", "lockPop"}

\* C34: from the return of flush until the next queueSubRect the queues are
\* empty and no worker analyses or encodes: so it is at the entry of
\* writeRects (the assertion workQueue.empty()), and while the driver runs
\* prepareEncoders or the rest of writeUpdate between two flushes.
C34_QuietAfterFlush ==
  (\/ dpc \in {"flushRet", "cursor", "end", "idle", "stop", "join", "destroyed"}
   \/ dpc = "writeRects" /\ nextId = flushMark[2])
    => Quiet /\ rectCount = 0

\* a second writeUpdate is at the entry of writeRects, the first one having
\* had its rectangles encoded and written
C34_Witness ==
  /\ dpc = "writeRects"
  /\ nextId = flushMark[2]
  /\ Len(wire) >= 2
  /\ \E k \in EncoderClass : Len(encLog[k]) >= 2


(***************************************************************************)
(* The rectangles the solid finder writes (SpecUpd).                       *)
(***************************************************************************)
\* the solid writes of writeSolidRects(&changed, pb), as findSolidRect makes
\* them for the rectangles of ui.changed
\* findSolidRect again, noting for each solid rectangle erp it writes (field
\* rect) the rect of the call that wrote it, the colour of the seed and erb
RECURSIVE SolidNotes(_, _)
RECURSIVE SolidNotesFrom(_, _, _, _)
SolidNotes(rect, buf) == SolidNotesFrom(rect, buf, rect.tl.x, rect.tl.y)

SolidNotesFrom(rect, buf, dx, dy) ==
  IF dy >= rect.br.y THEN <<>>
  ELSE IF dx >= rect.br.x
  THEN SolidNotesFrom(rect, buf, rect.tl.x, dy + SolidSearchBlock)
  ELSE LET dh == Min(SolidSearchBlock, rect.br.y - dy)
           dw == Min(SolidSearchBlock, rect.br.x - dx)
           colourValue == getImage(buf, dx, dy)
       IN  IF ~checkSolidTile(setXYWH(dx, dy, dw, dh), colourValue, buf)
           THEN SolidNotesFrom(rect, buf, dx + SolidSearchBlock, dy)
           ELSE LET erb == extendSolidAreaByBlock(
                             setXYWH(dx, dy, rect.br.x - dx, rect.br.y - dy),
                             colourValue, buf)
                    erp == IF erb = rect THEN erb
                           ELSE extendSolidAreaByPixel(rect, erb, colourValue, buf)
                IN  IF erb # rect /\ area(erb) < SolidBlockMinArea
                    THEN SolidNotesFrom(rect, buf, dx + SolidSearchBlock, dy)
                    ELSE <<[call |-> rect, colour |-> colourValue,
                            erb |-> erb, rect |-> erp]>>
                         \o (IF erp.tl.x # rect.tl.x /\ height(erp) > SolidSearchBlock
                             THEN SolidNotes(
                                    setXYWH(rect.tl.x, erp.tl.y + SolidSearchBlock,
                                            erp.tl.x - rect.tl.x,
                                            height(erp) - SolidSearchBlock), buf)
                             ELSE <<>>)
                         \o (IF erp.br.x # rect.br.x
                             THEN SolidNotes(
                                    setXYWH(erp.br.x, erp.tl.y,
                                            rect.br.x - erp.br.x, height(erp)), buf)
                             ELSE <<>>)
                         \o (IF erp.br.y # rect.br.y
                             THEN SolidNotes(
                                    setXYWH(rect.tl.x, erp.br.y, width(rect),
                                            rect.br.y - erp.br.y), buf)
                             ELSE <<>>)

RECURSIVE SolidWrites(_)
SolidWrites(rects) ==
  IF rects = <<>> THEN <<>>
  ELSE SolidNotes(Head(rects), pb) \o SolidWrites(Tail(rects))

\* writeSolidRects has just run
SolidsDone == HeaderWritten /\ cp.supportsLastRect /\ dpc = "splitRects"

\* C35: a solid rectangle erp that findSolidRect writes lies in the rect of
\* its call, every pixel of it has the colour of the seed, it contains erb,
\* and it is the whole rect or erb has at least SolidBlockMinArea pixels;
\* the records written are these rectangles.
C35_SolidWrites ==
  SolidsDone =>
    LET written == SolidWrites(get_rects(ui.changed)) IN
      /\ SelectSeq(wire, IsSolidWrite) =
           [i \in 1..Len(written) |->
              [id |-> 0, type |-> "encoderSolid", rect |-> written[i].rect]]
      /\ \A i \in 1..Len(written) :
           LET e == written[i] IN
             /\ ~is_empty(e.rect)
             /\ enclosed_by(e.rect, e.call)
             /\ enclosed_by(e.erb, e.rect)
             /\ \A x \in e.rect.tl.x..(e.rect.br.x - 1),
                   y \in e.rect.tl.y..(e.rect.br.y - 1) :
                  getImage(pb, x, y) = e.colour
             /\ e.rect = e.call \/ area(e.erb) >= SolidBlockMinArea

\* a solid rectangle grown by pixels beyond its blocks, inside a larger rect
C35_Witness ==
  /\ SolidsDone
  /\ LET written == SolidWrites(get_rects(ui.changed)) IN
       \E i \in 1..Len(written) :
         /\ written[i].rect # written[i].call
         /\ written[i].rect # written[i].erb
         /\ area(written[i].erb) >= SolidBlockMinArea


\* C36: the solid rectangles of one writeSolidRects, as they are written,
\* are pairwise disjoint.
\* A call of findSolidRect writes one rectangle at most (its scan is not
\* resumed); the rect of a recursive call lies in the rect of the call that
\* made it, is smaller, and is disjoint from the rectangle that call wrote;
\* two calls are nested or disjoint.
C36_SolidsDisjoint ==
  SolidsDone =>
    LET written == SolidWrites(get_rects(ui.changed))
        solids == SelectSeq(wire, IsSolidWrite)
        top(e) == \E k \in 1..Len(ui.changed) : e.call = ui.changed[k]
    IN  /\ Len(solids) = Len(written)
        /\ \A i \in 1..Len(solids) : solids[i].rect = written[i].rect
        /\ \A i, j \in 1..Len(solids) :
             i < j => ~overlaps(solids[i].rect, solids[j].rect)
        /\ \A i, j \in 1..Len(written) :
             i < j =>
               /\ ~overlaps(written[i].rect, written[j].rect)
               /\ written[i].call # written[j].call
               /\ \/ ~overlaps(written[i].call, written[j].call)
                  \/ /\ enclosed_by(written[j].call, written[i].call)
                     /\ area(written[j].call) < area(written[i].call)
                     /\ ~overlaps(written[j].call, written[i].rect)
        /\ \A j \in 1..Len(written) :
             /\ ~is_empty(written[j].call)
             /\ \/ top(written[j])
                \/ \E i \in 1..(j - 1) :
                     enclosed_by(written[j].call, written[i].call)

\* three solid rectangles written for one changed rectangle: the first and
\* two from the recursion on its remainders
C36_Witness ==
  /\ SolidsDone
  /\ Len(ui.changed) = 1
  /\ LET written == SolidWrites(get_rects(ui.changed)) IN
       /\ Len(written) >= 3
       /\ \E j \in 2..Len(written) : written[j].call # ui.changed[1]


(***************************************************************************)
(* The splitting of writeRects (SpecUpd).                                  *)
(***************************************************************************)
\* C37: the sub-rectangles writeRects passes to queueSubRect for a rectangle
\* of its region are not empty, lie in the rectangle, do not overlap and
\* cover it; none is wider than SubRectMaxWidth or larger than
\* SubRectMaxArea; the height of the split is at least one row. (Stated of
\* the sub-rectangles writeRects is about to queue, and again of those it
\* has queued when the update ends.)
C37_SubRectsTile ==
  \/ dpc = "writeRects" /\ SubRectsQueued = <<>>
  \/ Finished
  =>
    LET all == SubRectsQueued \o pending IN
      /\ \A i \in 1..Len(all) :
           /\ ~is_empty(all[i])
           /\ width(all[i]) <= SubRectMaxWidth
           /\ area(all[i]) <= SubRectMaxArea
           /\ \E k \in 1..Len(changed) : enclosed_by(all[i], changed[k])
      /\ \A i, j \in 1..Len(all) : i < j => ~overlaps(all[i], all[j])
      /\ \A k \in 1..Len(changed) :
           /\ SumArea(SelectSeq(all, LAMBDA s : enclosed_by(s, changed[k])))
                = area(changed[k])
           /\ SubRectHeight(Min(width(changed[k]), SubRectMaxWidth)) >= 1

\* a rectangle of 2049x33 went out as four sub-rectangles, the last of them
\* one pixel wide and one row high
C37_Witness ==
  /\ Finished
  /\ changed = <<setXYWH(3, 7, 2049, 33)>>
  /\ Len(SubRectsQueued) = 4
  /\ SubRectsQueued[4] = setXYWH(2051, 39, 1, 1)


\* C38: on every path of readExtendedClipboard(L) that returns without
\* failing (Caps, Provide, Request, Peek, Notify, or oversized and dropped)
\* exactly L bytes of the body have been consumed, for every L >= 4, also
\* when L is larger than the payload of the action, so that the following
\* message is read from the correct offset.
C38_ExactlyLConsumed ==
  \A i \in 1 .. Len(rd.dispatched) :
    LET L == rd.dispatched[i]
    IN (L >= 4 /\ rd.raised = "") => (rd.hdr = 7 /\ rd.pos = L)

\* a Request message declaring 8 bytes: the handler was called, nothing was
\* raised, and only the four bytes of the flags were consumed
C38_Witness ==
  /\ Dispatched(8)
  /\ rd.msg.flags.action = {"clipboardRequest"}
  /\ rd.calls # <<>>
  /\ rd.raised = ""
  /\ rd.pos = 4


\* a step of the worker thread w (a broadcast or signal of the driver moves
\* a waiting worker too, but that is the driver's step)
WorkerStep(w) ==
  /\ w \in Threads
  /\ wpc'[w] # wpc[w]
  /\ wpc[w] # "waiting"

\* the positions of worker() that begin with queueMutex->lock() (the return
\* of consumerCond->wait() locks as well)
LockPoints == {"start", "woken", "lockOutput", "lockOrdered", "lockPop"}

\* C39: a worker holds the queue mutex whenever it evaluates the loop
\* condition, calls consumerCond->wait() or touches a queue, also after the
\* continue of a worker that pushed onto an ordered queue owned by another;
\* it locks the mutex only when it does not hold it, it unlocks it only
\* when it holds it, and it leaves the loop holding it and unlocks it once.
C39_LockDiscipline ==
  /\ [](\A w \in Threads :
          /\ wpc[w] = "loop" => queueMutex = w
          /\ wpc[w] # "loop" => queueMutex # w)
  /\ [][\A w \in {ThreadNames[i] : i \in 1 .. MaxThreads} :
          WorkerStep(w) =>
            /\ (\/ workQueue' # workQueue
                \/ encoderQueue' # encoderQueue
                \/ outputQueue' # outputQueue) =>
                 \/ queueMutex = w
                 \/ queueMutex = "free" /\ wpc[w] \in LockPoints
            /\ wpc[w] \in LockPoints => queueMutex = "free"
            /\ wpc'[w] \in {"waiting", "done"} =>
                 wpc[w] = "loop" /\ queueMutex = w /\ queueMutex' = "free"
            /\ queueMutex' # queueMutex =>
                 queueMutex \in {w, "free"} /\ queueMutex' \in {w, "free"}]_vars

\* a worker is back at the head of the loop, holding the mutex, after it
\* pushed its entry onto an ordered queue that another worker owns
C39_Witness ==
  \E w \in Threads, v \in Threads :
    /\ w # v
    /\ wpc[w] = "loop"
    /\ queueMutex = w
    /\ wentry[w] = NoEntry
    /\ wpc[v] = "encodeOrdered"
    /\ Len(encoderQueue[activeEncoders[wentry[v].type]]) = 2


\* the workers that hold a rectangle which is in no queue: popped off the
\* work queue and not yet pushed onto an encoder queue or the output queue
Analysing == {w \in Threads : wpc[w] \in {"prepare", "lockOrdered"}}
EncodingPlain == {w \in Threads : wpc[w] \in {"encode", "lockOutput"}}

\* the number of entries of the encoder queues of the classes in ks (the
\* entry an owner is encoding stays at the front of its queue)
RECURSIVE Ordered(_)
Ordered(ks) ==
  IF ks = {} THEN 0
  ELSE LET k == CHOOSE c \in ks : TRUE
       IN Len(encoderQueue[k]) + Ordered(ks \ {k})

\* the ids of the rectangles between queueSubRect and the write of flush
InFlight ==
  {workQueue[i].id : i \in 1 .. Len(workQueue)}
    \cup {wentry[w].id : w \in Analysing \cup EncodingPlain}
    \cup UNION {{encoderQueue[k][i].id : i \in 1 .. Len(encoderQueue[k])} :
                  k \in DOMAIN encoderQueue}
    \cup {outputQueue[i].id : i \in 1 .. Len(outputQueue)}
    \cup (IF dpc = "flushWrite" THEN {doutput.id} ELSE {})

\* C40: rectCount is the number of rectangles in the work queue, plus those
\* a worker is analysing, plus those in the ordered encoder queues or being
\* encoded, plus those in the output queue, plus the one flush is writing;
\* every rectangle queued is in exactly one of these places or written, none
\* is lost or duplicated, and rectCount is never negative.
C40_Conservation ==
  /\ rectCount >= 0
  /\ rectCount = Len(workQueue) + Cardinality(Analysing)
                   + Ordered(DOMAIN encoderQueue) + Cardinality(EncodingPlain)
                   + Len(outputQueue) + (IF dpc = "flushWrite" THEN 1 ELSE 0)
  /\ Cardinality(InFlight) = rectCount
  /\ Cardinality({wire[i].id : i \in 1 .. Len(wire)}) = Len(wire)
  /\ InFlight \cap {wire[i].id : i \in 1 .. Len(wire)} = {}
  /\ InFlight \cup {wire[i].id : i \in 1 .. Len(wire)} = 1 .. nextId - 1
  /\ \A w \in Threads : wpc[w] \in {"encodeOrdered", "lockPop"} =>
       \E k \in DOMAIN encoderQueue :
         encoderQueue[k] # <<>> /\ front(encoderQueue[k]) = wentry[w]

\* two rectangles are pending, one being written by flush and the other
\* still with a worker
C40_Witness ==
  /\ rectCount = 2
  /\ dpc = "flushWrite"
  /\ outputQueue = <<>>
  /\ workQueue = <<>>
  /\ \E w \in Threads : wpc[w] \in {"prepare", "encode", "encodeOrdered"}
====
